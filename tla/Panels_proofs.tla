---------------------------- MODULE Panels_proofs ---------------------------
(***************************************************************************)
(* Proofs about the panels of the desktop program, for any number of calls *)
(* that overlap: the search overlay, the playlists, the output device, the *)
(* menu and the feature flags.                                             *)
(*                                                                         *)
(* Each panel keeps a list of calls under way, and a history of whether    *)
(* they overlapped. The invariants have one shape: unless they did, the    *)
(* list has at most one call (of a kind), and what the panel shows is what *)
(* it should, up to what this call will still change.                      *)
(***************************************************************************)
EXTENDS SearchOverlay, PlaylistPanel, AudioDevice, GoampMenu, FeatureFlags, TaskLists

-----------------------------------------------------------------------------
\* The list and its copy belong to the queries they are restored with.
KeptAnswers ==
  /\ allResults.pages > 0 => allResults.of = currentQuery
  /\ lastResults.pages > 0 => lastResults.of = lastQuery

\* Request i is the search for the query that is stored.
SearchesLast(i) == asked[i].kind # "more" /\ asked[i].of = lastQuery

\* Unless the search for the query shown came to nothing or was overtaken, it is
\* still under way, or list and copy belong to it. The query shown is the one
\* stored, except before the overlay is opened for the first time.
SearchInOrder ==
  ~disturbed =>
    /\ KeptAnswers \/ \E i \in DOMAIN asked : SearchesLast(i)
    /\ \/ currentQuery = lastQuery
       \/ currentQuery = NoQuery /\ ~overlay /\ asked = <<>> /\ ~(allResults.pages > 0)

\* A new process starts without list and requests.
LEMMA SearchStart == SearchInit => SearchTypeOK /\ SearchInOrder
<1> SUFFICES ASSUME SearchInit
             PROVE  SearchTypeOK /\ SearchInOrder
  OBVIOUS
<1>1. NoResults \in Results /\ NoResults.pages = 0 /\ 0 \in 0..MaxPages
  BY SearchAssumption DEF NoResults, Results
<1>2. <<>> \in Seq(Request)
  BY NothingListed
<1>3. SearchTypeOK
  BY <1>1, <1>2 DEF SearchInit, SearchTypeOK, Source
<1>4. SearchInOrder
  BY <1>1 DEF SearchInit, SearchInOrder, KeptAnswers
<1> QED
  BY <1>3, <1>4

\* The variables keep their types, whoever answers what.
LEMMA SearchTypes == SearchTypeOK /\ [SearchNext]_searchVars => SearchTypeOK'
<1> SUFFICES ASSUME SearchTypeOK, [SearchNext]_searchVars
             PROVE  SearchTypeOK'
  OBVIOUS
<1> USE SearchAssumption
<1>1. NoResults \in Results
  BY DEF NoResults, Results
<1>0. 0 \in 0..MaxPages /\ <<>> \in Seq(Request)
  BY NothingListed
<1>2. \A r \in Results : \A p \in 0..MaxPages : PageShown(r, p) \in 0..MaxPages
  BY DEF PageShown
<1>3. \A i \in DOMAIN asked : asked[i] \in Request /\ RemoveAt(asked, i) \in Seq(Request)
  BY OneLess DEF SearchTypeOK
<1>4. CASE OpenOverlay
  <2>1. 1 \in 0..MaxPages
    OBVIOUS
  <2> QED
    BY <1>2, <1>4, <2>1 DEF OpenOverlay, Restore, playVars, SearchTypeOK
<1>5. CASE CloseOverlay
  BY <1>5 DEF CloseOverlay, Close, resultVars, playVars, SearchTypeOK
<1>6. CASE CloseTimerFires
  <2>1. asked' \in Seq(Request)
    <3>1. \A i \in DOMAIN asked : [asked[i] EXCEPT !.here = FALSE] \in Request
      BY <1>3 DEF Request
    <3>2. asked \in Seq(Request) /\ asked' = [i \in 1..Len(asked) |-> [asked[i] EXCEPT !.here = FALSE]]
      BY <1>6 DEF CloseTimerFires, SearchTypeOK
    <3> QED
      BY <3>1, <3>2
  <2>4. closeTimers \in Nat /\ closeTimers > 0 /\ closeTimers' = closeTimers - 1
    BY <1>6 DEF CloseTimerFires, SearchTypeOK
  <2>5. overlay' = FALSE /\ page' = 0
    BY <1>6 DEF CloseTimerFires
  <2>2. closeTimers' \in Nat /\ overlay' \in BOOLEAN /\ page' \in 0..MaxPages
    <3>1. closeTimers' \in Nat
      BY ONLY <2>4
    <3>2. page' \in 0..MaxPages
      BY <1>0, <2>5
    <3> QED
      BY <2>5, <3>1, <3>2
  <2>3. UNCHANGED <<allResults, currentQuery, currentSource, lastQuery, lastResults, lastSource,
                    disturbed, downloads, queueAll>>
    BY <1>6 DEF CloseTimerFires, playVars
  <2> QED
    BY <2>1, <2>2, <2>3 DEF SearchTypeOK
<1>7. ASSUME NEW s \in Source, SelectSource(s)
      PROVE  SearchTypeOK'
  BY <1>1, <1>7 DEF SelectSource, overlayVars, playVars, SearchTypeOK
<1>8. ASSUME NEW q \in Query, Search(q)
      PROVE  SearchTypeOK'
  <2>1. [kind |-> IF q \in Album THEN "import" ELSE "search", of |-> q, pages |-> 1, here |-> TRUE]
          \in Request
    BY DEF Request
  <2>3. asked' = asked \/ asked' = Append(asked, [kind |-> IF q \in Album THEN "import" ELSE "search",
                                                  of |-> q, pages |-> 1, here |-> TRUE])
    BY <1>8 DEF Search
  <2>4. asked' \in Seq(Request)
    BY <2>1, <2>3 DEF SearchTypeOK
  <2>2. asked' \in Seq(Request) /\ lastQuery' \in Query \cup {NoQuery} /\ allResults' \in Results
        /\ disturbed' \in BOOLEAN
    BY <1>1, <1>8, <2>4 DEF Search, SearchTypeOK
  <2> QED
    BY <1>8, <2>2 DEF Search, overlayVars, playVars, SearchTypeOK
<1>9. ASSUME NEW p \in 1..MaxPages, ShowPage(p)
      PROVE  SearchTypeOK'
  BY <1>9 DEF ShowPage, overlayVars, playVars, SearchTypeOK
<1>10. CASE LoadMore
  <2>1. [kind |-> "more", of |-> currentQuery, pages |-> page + 1, here |-> TRUE] \in Request
    BY <1>10 DEF LoadMore, Request, SearchTypeOK
  <2>2. asked' \in Seq(Request)
    BY <1>10, <2>1 DEF LoadMore, SearchTypeOK
  <2> QED
    BY <1>10, <2>2 DEF LoadMore, overlayVars, playVars, SearchTypeOK
<1>11. ASSUME NEW i \in DOMAIN asked, Answered(i)
       PROVE  SearchTypeOK'
  <2>1. ASSUME NEW n \in 0..asked[i].pages, NEW kept \in BOOLEAN, NEW found,
               found = [of |-> IF n = 0 THEN NoQuery ELSE asked[i].of, pages |-> n],
               TakeResults(found, asked[i].pages, asked[i].here, kept)
        PROVE  page' \in 0..MaxPages /\ allResults' \in Results /\ lastResults' \in Results
    <3>1. found \in Results
      BY <1>3, <2>1 DEF Request, Results
    <3>2. asked[i].pages \in 0..MaxPages
      BY <1>3 DEF Request
    <3> QED
      BY <1>0, <1>2, <2>1, <3>1, <3>2 DEF TakeResults, SearchTypeOK
  <2>2. page' \in 0..MaxPages /\ allResults' \in Results /\ lastResults' \in Results
    BY <1>11, <2>1 DEF Answered, SearchTypeOK
  <2>3. disturbed' \in BOOLEAN
    BY <1>11 DEF Answered, SearchTypeOK
  <2> QED
    BY <1>3, <1>11, <2>2, <2>3 DEF Answered, overlayVars, playVars, SearchTypeOK
<1>12. ASSUME NEW i \in DOMAIN asked, Failed(i)
       PROVE  SearchTypeOK'
  BY <1>3, <1>12 DEF Failed, overlayVars, playVars, SearchTypeOK
<1>13. ASSUME NEW d \in Purpose, Download(d) \/ Downloaded(d)
       PROVE  SearchTypeOK'
  BY <1>13 DEF Download, Downloaded, Close, resultVars, overlayVars, SearchTypeOK
<1>14. CASE QueueAll \/ QueueNext
  BY <1>14 DEF QueueAll, QueueNext, resultVars, overlayVars, SearchTypeOK, Results
<1>15. CASE RestartSearch
  BY <1>0, <1>1, <1>15 DEF RestartSearch, SearchTypeOK, Source
<1>16. CASE UNCHANGED searchVars
  BY <1>16 DEF searchVars, SearchTypeOK
<1> QED
  BY <1>4, <1>5, <1>6, <1>7, <1>8, <1>9, <1>10, <1>11, <1>12, <1>13, <1>14, <1>15, <1>16
     DEF SearchNext

\* What leaves queries, results and requests alone keeps the order.
LEMMA SearchOrderStays ==
  ASSUME SearchInOrder, overlay' => overlay,
         UNCHANGED <<allResults, currentQuery, lastQuery, lastResults, asked, disturbed>>
  PROVE  SearchInOrder'
BY DEF SearchInOrder, KeptAnswers, SearchesLast

\* When request i goes, another one that searches for the stored query stays.
LEMMA OthersStay ==
  ASSUME SearchTypeOK, NEW i \in DOMAIN asked, asked' = RemoveAt(asked, i), UNCHANGED lastQuery,
         NEW j \in DOMAIN asked, j # i, SearchesLast(j)
  PROVE  \E k \in DOMAIN asked' : SearchesLast(k)'
<1>1. asked \in Seq(Request) /\ asked' \in Seq(Request)
  BY OneLess DEF SearchTypeOK
<1>2. PICK k \in DOMAIN asked' : asked'[k] = asked[j]
  BY <1>1, OneLess
<1>3. SearchesLast(k)'
  BY <1>2 DEF SearchesLast
<1> QED
  BY <1>2, <1>3

\* An answer, taken or not.
LEMMA AnswerKeepsOrder ==
  ASSUME SearchTypeOK, SearchInOrder, NEW i \in DOMAIN asked, Answered(i)
  PROVE  SearchInOrder'
<1>1. asked[i] \in Request /\ asked' = RemoveAt(asked, i)
  BY DEF SearchTypeOK, Answered
<1>2. UNCHANGED <<currentQuery, lastQuery, overlay>>
  BY DEF Answered, overlayVars
<1>3. ASSUME NEW n \in 0..asked[i].pages, NEW kept \in BOOLEAN, NEW found,
             found = [of |-> IF n = 0 THEN NoQuery ELSE asked[i].of, pages |-> n],
             TakeResults(found, asked[i].pages, asked[i].here, kept),
             disturbed' = ~(kept /\ asked[i].of = currentQuery /\ asked[i].of = lastQuery)
      PROVE  SearchInOrder'
  <2>1. ASSUME ~disturbed'
        PROVE  KeptAnswers' /\ currentQuery' = lastQuery'
    <3>1. kept /\ asked[i].of = currentQuery /\ asked[i].of = lastQuery
      BY <1>3, <2>1
    <3>2. allResults' = found /\ lastResults' = found
      BY <1>3, <3>1 DEF TakeResults
    <3>3. found.pages = n /\ (n > 0 => found.of = asked[i].of)
      BY <1>3
    <3> QED
      BY <1>2, <3>1, <3>2, <3>3 DEF KeptAnswers
  <2> QED
    BY <2>1 DEF SearchInOrder
<1>4. ASSUME asked[i].kind = "more", UNCHANGED <<allResults, lastResults, disturbed>>
      PROVE  SearchInOrder'
  <2>1. ASSUME ~disturbed'
        PROVE  /\ KeptAnswers' \/ \E k \in DOMAIN asked' : SearchesLast(k)'
               /\ currentQuery' = lastQuery'
    <3>1. currentQuery = lastQuery
      BY <1>4, <2>1, NothingListed DEF SearchInOrder
    <3>2. CASE KeptAnswers
      BY <1>2, <1>4, <3>2, <3>1 DEF KeptAnswers
    <3>3. ASSUME NEW j \in DOMAIN asked, SearchesLast(j)
          PROVE  \E k \in DOMAIN asked' : SearchesLast(k)'
      <4>1. j # i
        BY <1>4, <3>3 DEF SearchesLast
      <4> QED
        BY <1>1, <1>2, <3>3, <4>1, OthersStay
    <3> QED
      BY <1>2, <1>4, <2>1, <3>1, <3>2, <3>3 DEF SearchInOrder
  <2> QED
    BY <2>1 DEF SearchInOrder
<1>5. \E n \in 0..asked[i].pages, kept \in BOOLEAN :
        LET found == [of |-> IF n = 0 THEN NoQuery ELSE asked[i].of, pages |-> n]
        IN  \/ /\ TakeResults(found, asked[i].pages, asked[i].here, kept)
               /\ disturbed' = ~(kept /\ asked[i].of = currentQuery /\ asked[i].of = lastQuery)
            \/ asked[i].kind = "more" /\ UNCHANGED <<allResults, lastResults, disturbed>>
  BY DEF Answered
<1> QED
  BY <1>3, <1>4, <1>5

\* Every step keeps list, copy and queries in order.
LEMMA SearchStep ==
  SearchTypeOK /\ SearchInOrder /\ [SearchNext]_searchVars => SearchInOrder'
<1> SUFFICES ASSUME SearchTypeOK, SearchInOrder, [SearchNext]_searchVars
             PROVE  SearchInOrder'
  OBVIOUS
<1>1. CASE OpenOverlay
  <2>1. UNCHANGED <<lastQuery, lastResults, asked, disturbed>>
    BY <1>1 DEF OpenOverlay
  <2>2. ASSUME ~disturbed
        PROVE  currentQuery' = lastQuery' /\ (KeptAnswers => KeptAnswers')
    <3>1. CASE lastQuery = NoQuery
      <4>1. UNCHANGED <<currentQuery, allResults>> /\ currentQuery = lastQuery
        BY <1>1, <2>2, <3>1 DEF OpenOverlay, Restore, SearchInOrder
      <4> QED
        BY <2>1, <4>1 DEF KeptAnswers
    <3>2. CASE lastQuery # NoQuery
      <4>1. currentQuery' = lastQuery
        BY <1>1, <3>2 DEF OpenOverlay, Restore
      <4>2. \/ lastResults.pages > 0 /\ allResults' = lastResults
            \/ UNCHANGED allResults
        BY <1>1, <3>2 DEF OpenOverlay, Restore
      <4>3. currentQuery = lastQuery \/ ~(allResults.pages > 0)
        BY <2>2 DEF SearchInOrder
      <4> QED
        BY <2>1, <4>1, <4>2, <4>3 DEF KeptAnswers
    <3> QED
      BY <3>1, <3>2
  <2> QED
    BY <2>1, <2>2 DEF SearchInOrder, SearchesLast
<1>2. CASE CloseOverlay \/ QueueAll \/ QueueNext \/ UNCHANGED searchVars
  BY <1>2, SearchOrderStays
     DEF CloseOverlay, QueueAll, QueueNext, searchVars, resultVars, overlayVars
<1>3. CASE CloseTimerFires
  <2>1. /\ UNCHANGED <<allResults, currentQuery, lastQuery, lastResults, disturbed>>
        /\ overlay' = FALSE
        /\ asked' = [i \in DOMAIN asked |-> [asked[i] EXCEPT !.here = FALSE]]
    BY <1>3 DEF CloseTimerFires
  <2>2. asked \in Seq(Request)
    BY DEF SearchTypeOK
  <2>3. \A i \in DOMAIN asked : asked'[i].of = asked[i].of /\ asked'[i].kind = asked[i].kind
    <3> TAKE i \in DOMAIN asked
    <3>1. asked[i] \in Request /\ asked'[i] = [asked[i] EXCEPT !.here = FALSE]
      BY <2>1, <2>2
    <3> QED
      BY <3>1 DEF Request
  <2>4. DOMAIN asked' = DOMAIN asked /\ (asked = <<>> => asked' = <<>>)
    BY <2>1, <2>2
  <2> QED
    BY <2>1, <2>3, <2>4 DEF SearchInOrder, KeptAnswers, SearchesLast
<1>4. ASSUME NEW s \in Source, SelectSource(s)
      PROVE  SearchInOrder'
  <2>1. /\ allResults' = NoResults \/ UNCHANGED allResults
        /\ UNCHANGED <<currentQuery, lastQuery, lastResults, asked, disturbed, overlay>>
    BY <1>4 DEF SelectSource, overlayVars
  <2> QED
    BY <2>1 DEF SearchInOrder, KeptAnswers, SearchesLast, NoResults
<1>5. ASSUME NEW q \in Query, Search(q)
      PROVE  SearchInOrder'
  <2>1. CASE disturbed' = TRUE
    BY <2>1 DEF SearchInOrder
  <2>2. CASE disturbed' # TRUE
    <3>1. /\ asked' = Append(asked, [kind |-> IF q \in Album THEN "import" ELSE "search",
                                     of |-> q, pages |-> 1, here |-> TRUE])
          /\ currentQuery' = q /\ lastQuery' = q
      BY <1>5, <2>2 DEF Search
    <3>2. asked \in Seq(Request)
      BY DEF SearchTypeOK
    <3>3. PICK n : n = Len(asked) + 1
      OBVIOUS
    <3>4. n \in DOMAIN asked' /\ asked'[n].kind # "more" /\ asked'[n].of = q
      BY <3>1, <3>2, <3>3
    <3>5. \E i \in DOMAIN asked' : SearchesLast(i)'
      BY <3>1, <3>4 DEF SearchesLast
    <3> QED
      BY <3>1, <3>5 DEF SearchInOrder
  <2> QED
    BY <2>1, <2>2
<1>6. ASSUME NEW p \in 1..MaxPages, ShowPage(p)
      PROVE  SearchInOrder'
  BY <1>6, SearchOrderStays DEF ShowPage, overlayVars
<1>7. CASE LoadMore
  <2>1. /\ UNCHANGED <<allResults, currentQuery, lastQuery, lastResults, disturbed>> /\ overlay
        /\ \E r : asked' = Append(asked, r)
    BY <1>7 DEF LoadMore
  <2>2. asked \in Seq(Request)
    BY DEF SearchTypeOK
  <2>3. \A i \in DOMAIN asked : i \in DOMAIN asked' /\ asked'[i] = asked[i]
    BY <2>1, <2>2
  <2> QED
    BY <2>1, <2>3 DEF SearchInOrder, KeptAnswers, SearchesLast
<1>8. ASSUME NEW i \in DOMAIN asked, Answered(i)
      PROVE  SearchInOrder'
  BY <1>8, AnswerKeepsOrder
<1>9. ASSUME NEW i \in DOMAIN asked, Failed(i)
      PROVE  SearchInOrder'
  <2>1. /\ asked' = RemoveAt(asked, i)
        /\ disturbed' = (disturbed \/ (asked[i].kind # "more" /\ asked[i].of = currentQuery))
        /\ UNCHANGED <<allResults, currentQuery, lastQuery, lastResults, overlay>>
    BY <1>9 DEF Failed, overlayVars
  <2>2. ASSUME ~disturbed'
        PROVE  /\ KeptAnswers' \/ \E k \in DOMAIN asked' : SearchesLast(k)'
               /\ currentQuery' = lastQuery'
    <3>1. ~disturbed /\ (asked[i].kind = "more" \/ asked[i].of # currentQuery)
      BY <2>1, <2>2
    <3>2. currentQuery = lastQuery
      BY <3>1, NothingListed DEF SearchInOrder
    <3>3. CASE KeptAnswers
      BY <2>1, <3>2, <3>3 DEF KeptAnswers
    <3>4. ASSUME NEW j \in DOMAIN asked, SearchesLast(j)
          PROVE  \E k \in DOMAIN asked' : SearchesLast(k)'
      <4>1. j # i
        BY <3>1, <3>2, <3>4 DEF SearchesLast
      <4> QED
        BY <2>1, <3>4, <4>1, OthersStay
    <3> QED
      BY <2>1, <3>1, <3>2, <3>3, <3>4 DEF SearchInOrder
  <2> QED
    BY <2>2 DEF SearchInOrder
<1>10. ASSUME NEW d \in Purpose, Download(d) \/ Downloaded(d)
       PROVE  SearchInOrder'
  BY <1>10, SearchOrderStays DEF Download, Downloaded, resultVars, overlayVars
<1>11. CASE RestartSearch
  <2>1. /\ allResults' = NoResults /\ currentQuery' = NoQuery /\ asked' = <<>> /\ overlay' = FALSE
        /\ disturbed' = (disturbed \/ \E i \in DOMAIN asked : asked[i].kind # "more")
        /\ UNCHANGED <<lastQuery, lastResults>>
    BY <1>11 DEF RestartSearch
  <2>2. ~disturbed' => KeptAnswers'
    BY <2>1 DEF SearchInOrder, KeptAnswers, SearchesLast, NoResults
  <2>3. ~(allResults'.pages > 0)
    BY <2>1 DEF NoResults
  <2> QED
    BY <2>1, <2>2, <2>3 DEF SearchInOrder
<1> QED
  BY <1>1, <1>2, <1>3, <1>4, <1>5, <1>6, <1>7, <1>8, <1>9, <1>10, <1>11 DEF SearchNext

\* SearchOverlay.ts: the overlay's variables keep their types.
THEOREM SearchTypeCorrect == SearchSpec => []SearchTypeOK
BY SearchStart, SearchTypes, PTL DEF SearchSpec

\* SearchOverlay.ts:114: whatever searches and pages overlap, and however often the
\* overlay is closed, opened and restored, the list answers the query that further
\* pages are asked with, unless the search for it came to nothing or was overtaken.
THEOREM ListBelongsToQuery == SearchSpec => []ListAnswersQuery
<1>1. SearchTypeOK /\ SearchInOrder => ListAnswersQuery
  <2> SUFFICES ASSUME SearchInOrder, ~disturbed, asked = <<>>, allResults.pages > 0
               PROVE  allResults.of = currentQuery
    BY DEF ListAnswersQuery
  <2>1. DOMAIN asked = {}
    BY NothingListed
  <2> QED
    BY <2>1 DEF SearchInOrder, KeptAnswers
<1> QED
  BY <1>1, SearchStart, SearchTypes, SearchStep, PTL DEF SearchSpec

-----------------------------------------------------------------------------
Switching == [to : Device, moved : 0..Elements, click : BOOLEAN]

\* What a switch that is alone has moved plays on its device.
HalfWay(s) == \A e \in 1..s.moved : sinks[e] = s.to

\* Where the sound is when no switch is under way and none will begin by itself.
SoundInOrder == sinks[Elements] = deviceId /\ (trouble = "none" => \A e \in 1..Elements : sinks[e] = deviceId)

\* What the one switch under way will bring about: the one that restores goes to the
\* device stored; until a click has moved the last element, this one has its device.
SwitchPromise(s) ==
  /\ ~s.click => s.to = deviceId
  /\ s.click /\ s.moved < Elements => sinks[Elements] = deviceId

DeviceInOrder ==
  /\ listings = 0 => marked \in {NoDevice, deviceId}
  /\ ~devicePanel => marked = NoDevice
  /\ ~switchesCrossed =>
       /\ Len(switches) <= 1
       /\ \A i \in DOMAIN switches :
            /\ HalfWay(switches[i]) /\ (switches[i].click => restoring = NoDevice)
            /\ trouble # "astray" => SwitchPromise(switches[i])
  /\ trouble # "astray" =>
       /\ restoring # NoDevice => restoring = deviceId
       /\ restoring = NoDevice /\ switches = <<>> => SoundInOrder

\* Before the stored device is restored every element plays on the default.
LEMMA DeviceStart == DeviceInit => DeviceTypeOK /\ DeviceInOrder
<1> SUFFICES ASSUME DeviceInit
             PROVE  DeviceTypeOK /\ DeviceInOrder
  OBVIOUS
<1>1. <<>> \in Seq(Switching) /\ Len(<<>>) = 0 /\ DOMAIN <<>> = {}
  BY NothingListed
<1>4. sinks \in [1..Elements -> Device] /\ deviceId \in Device /\ present \subseteq Device
  BY DeviceAssumption DEF DeviceInit
<1>5. switches = <<>> /\ deviceTimers = 0 /\ listings = 0
  BY DEF DeviceInit
<1>6. devicePanel = FALSE /\ switchesCrossed = FALSE /\ marked = NoDevice /\ trouble \in Troubles
      /\ (restoring = NoDevice \/ restoring = deviceId)
  BY DEF DeviceInit, Troubles
<1>2. DeviceTypeOK
  <2>4. {devicePanel, switchesCrossed} \subseteq BOOLEAN
    BY <1>6, Zenon
  <2>1. {deviceTimers, listings} \subseteq Nat
    BY <1>5
  <2>2. {marked, restoring} \subseteq Device \cup {NoDevice}
    BY <1>4, <1>6
  <2>3. switches \in Seq(Switching)
    BY <1>1, <1>5
  <2> QED
    BY <1>4, <1>6, <2>1, <2>2, <2>3, <2>4 DEF DeviceTypeOK, Switching
<1>7. restoring = NoDevice => SoundInOrder
  BY DeviceAssumption DEF DeviceInit, SoundInOrder
<1>3. DeviceInOrder
  BY <1>1, <1>5, <1>6, <1>7 DEF DeviceInOrder
<1> QED
  BY <1>2, <1>3

\* A switch begins: clicked, or to restore the device stored.
LEMMA SwitchBegins ==
  ASSUME DeviceTypeOK, DeviceInOrder, NEW d \in Device, NEW clicked \in BOOLEAN,
         BeginSwitch(d, clicked),
         UNCHANGED <<devicePanel, deviceTimers, marked, deviceId, sinks, present, listings, trouble>>,
         IF clicked THEN restoring' = restoring ELSE d = restoring /\ restoring' = NoDevice
  PROVE  DeviceTypeOK' /\ DeviceInOrder'
<1> DEFINE s == [to |-> d, moved |-> 0, click |-> clicked]
<1>1. s \in Switching /\ s.to = d /\ s.moved = 0 /\ s.click = clicked
  BY DeviceAssumption DEF Switching
<1> HIDE DEF s
<1>2. switches \in Seq(Switching) /\ switches' = Append(switches, s)
  BY DEF DeviceTypeOK, BeginSwitch, Switching, s
<1>3. switches' \in Seq(Switching) /\ switches' # <<>>
  BY <1>1, <1>2
<1>4. switchesCrossed' \in BOOLEAN
  BY DEF BeginSwitch
<1>5. DeviceTypeOK'
  BY <1>3, <1>4 DEF DeviceTypeOK, Switching
<1>6. ASSUME ~switchesCrossed'
      PROVE  /\ Len(switches') <= 1
             /\ \A i \in DOMAIN switches' : switches'[i] = s
             /\ clicked => restoring = NoDevice /\ restoring' = NoDevice
             /\ trouble # "astray" => SwitchPromise(s)
  <2>1. switches = <<>> /\ (clicked => restoring = NoDevice)
    BY <1>6 DEF BeginSwitch
  <2>2. switches' = <<s>>
    BY <1>2, <2>1
  <2>3. ~clicked => restoring = d /\ d # NoDevice
    BY DeviceAssumption
  <2>4. trouble # "astray" => SwitchPromise(s)
    BY <1>1, <2>1, <2>3 DEF DeviceInOrder, SwitchPromise, SoundInOrder
  <2> QED
    BY <2>1, <2>2, <2>4
<1>7. HalfWay(s)'
  BY <1>1 DEF HalfWay
<1>8. SwitchPromise(s) => SwitchPromise(s)'
  BY DEF SwitchPromise
<1>9. \A i \in DOMAIN switches' : ~switchesCrossed' =>
        /\ HalfWay(switches[i])' /\ (switches'[i].click => restoring' = NoDevice)
        /\ trouble' # "astray" => SwitchPromise(switches[i])'
  BY <1>1, <1>6, <1>7, <1>8 DEF HalfWay, SwitchPromise
<1>10. trouble' # "astray" => (restoring' # NoDevice => restoring' = deviceId')
  BY DEF DeviceInOrder
<1>11. DeviceInOrder'
  BY <1>3, <1>6, <1>9, <1>10 DEF DeviceInOrder
<1> QED
  BY <1>5, <1>11

\* The next element moves.
LEMMA MoveKeeps ==
  ASSUME DeviceTypeOK, DeviceInOrder, NEW i \in DOMAIN switches, ElementMoves(i)
  PROVE  DeviceTypeOK' /\ DeviceInOrder'
<1> DEFINE s == switches[i]
<1>a. switches \in Seq(Switching)
  BY DEF DeviceTypeOK, Switching
<1>1. s \in Switching /\ switches \in Seq(Switching) /\ s.moved < Elements
  BY <1>a DEF ElementMoves, MoreToMove
<1>2. UNCHANGED <<devicePanel, deviceTimers, marked, deviceId, present, restoring, listings,
                  switchesCrossed, trouble>>
  BY DEF ElementMoves, historyVars
<1>3. /\ sinks' = [sinks EXCEPT ![s.moved + 1] = s.to]
      /\ switches' = [switches EXCEPT ![i].moved = @ + 1]
  BY DEF ElementMoves
<1> HIDE DEF s
<1>4. [s EXCEPT !.moved = @ + 1] \in Switching
  <2>1. s.to \in Device /\ s.moved \in 0..Elements /\ s.click \in BOOLEAN
    BY <1>1 DEF Switching
  <2>2. s.moved + 1 \in 0..Elements
    BY <1>1, <2>1, DeviceAssumption
  <2>3. [s EXCEPT !.moved = @ + 1] = [to |-> s.to, moved |-> s.moved + 1, click |-> s.click]
    BY <1>1 DEF Switching
  <2> QED
    BY <2>1, <2>2, <2>3 DEF Switching
<1>5. PICK q \in Switching : q = [s EXCEPT !.moved = @ + 1]
  BY <1>4
<1>6. q.to = s.to /\ q.click = s.click /\ q.moved = s.moved + 1 /\ s.moved \in Nat
  BY <1>1, <1>5, DeviceAssumption DEF Switching
<1>7. switches' = [switches EXCEPT ![i] = q]
  BY <1>3, <1>5 DEF s
<1>8. /\ switches' \in Seq(Switching) /\ Len(switches') = Len(switches)
      /\ DOMAIN switches' = DOMAIN switches /\ switches'[i] = q
      /\ \A j \in DOMAIN switches \ {i} : switches'[j] = switches[j]
  BY <1>1, <1>7, OneChanged
<1>9. switches' # <<>>
  BY <1>8
<1>10. sinks \in [1..Elements -> Device] /\ s.moved + 1 \in 1..Elements /\ s.to \in Device
  BY <1>1, <1>6, DeviceAssumption DEF DeviceTypeOK, Switching
<1>11. sinks' \in [1..Elements -> Device]
  BY <1>3, <1>10
<1>12. DeviceTypeOK'
  BY <1>2, <1>8, <1>11 DEF DeviceTypeOK, Switching
<1>13. ASSUME ~switchesCrossed
       PROVE  /\ Len(switches') <= 1
              /\ \A j \in DOMAIN switches' :
                   /\ HalfWay(switches[j])' /\ (switches'[j].click => restoring' = NoDevice)
                   /\ trouble' # "astray" => SwitchPromise(switches[j])'
  <2>1. /\ Len(switches) <= 1 /\ HalfWay(s) /\ (s.click => restoring = NoDevice)
        /\ trouble # "astray" => SwitchPromise(s)
    BY <1>13 DEF DeviceInOrder, s
  <2>2. DOMAIN switches = {i}
    <3>1. Len(switches) \in Nat /\ DOMAIN switches = 1..Len(switches) /\ i \in 1..Len(switches)
      BY <1>1
    <3> QED
      BY ONLY <2>1, <3>1
  <2>3. \A e \in 1..q.moved : sinks'[e] = s.to
    BY <1>3, <1>6, <1>10, <2>1 DEF HalfWay
  <2>4. HalfWay(q)'
    BY <1>6, <2>3 DEF HalfWay
  <2>5. SwitchPromise(s) => SwitchPromise(q)'
    <3>1. s.moved + 1 < Elements => sinks'[Elements] = sinks[Elements]
      BY <1>3, <1>6, <1>10, DeviceAssumption
    <3>2. s.moved + 1 < Elements => s.moved < Elements
      BY <1>1
    <3> QED
      BY <1>2, <1>6, <3>1, <3>2 DEF SwitchPromise
  <2>6. \A j \in DOMAIN switches' : switches'[j] = q
    BY <1>8, <2>2
  <2> QED
    BY <1>2, <1>6, <1>8, <2>1, <2>4, <2>5, <2>6 DEF HalfWay, SwitchPromise
<1>14. DeviceInOrder'
  BY <1>2, <1>9, <1>13 DEF DeviceInOrder
<1> QED
  BY <1>12, <1>14

\* A switch that ends leaves no other one, unless switches crossed.
LEMMA SwitchEnds ==
  ASSUME DeviceTypeOK, DeviceInOrder, NEW i \in DOMAIN switches, switches' = RemoveAt(switches, i)
  PROVE  /\ switches' \in Seq(Switching) /\ switches[i] \in Switching
         /\ ~switchesCrossed => switches' = <<>> /\ Len(switches') <= 1 /\ DOMAIN switches' = {}
<1>1. switches \in Seq(Switching)
  BY DEF DeviceTypeOK, Switching
<1>2. switches' \in Seq(Switching) /\ (Len(switches) <= 1 => switches' = <<>>)
  BY <1>1, OneLess
<1>3. ~switchesCrossed => switches' = <<>>
  BY <1>2 DEF DeviceInOrder
<1> QED
  BY <1>1, <1>2, <1>3, NothingListed

\* An element cannot be moved: nothing is stored.
LEMMA StayKeeps ==
  ASSUME DeviceTypeOK, DeviceInOrder, NEW i \in DOMAIN switches, ElementStays(i)
  PROVE  DeviceTypeOK' /\ DeviceInOrder'
<1> DEFINE s == switches[i]
<1>1. /\ s.moved < Elements /\ switches' = RemoveAt(switches, i)
      /\ trouble' = IF switchesCrossed \/ ~s.click \/ trouble = "astray" THEN "astray" ELSE "half"
      /\ UNCHANGED <<devicePanel, deviceTimers, marked, sinks, present, restoring, switchesCrossed>>
  BY DEF ElementStays
<1>2. UNCHANGED <<deviceId, listings>>
  BY DEF ElementStays, Concluded
<1>3. /\ switches' \in Seq(Switching)
      /\ ~switchesCrossed => switches' = <<>> /\ Len(switches') <= 1 /\ DOMAIN switches' = {}
  BY <1>1, SwitchEnds
<1>4. trouble' \in Troubles
  BY <1>1 DEF Troubles
<1>5. DeviceTypeOK'
  BY <1>1, <1>2, <1>3, <1>4 DEF DeviceTypeOK, Switching
<1>6. ASSUME trouble' # "astray"
      PROVE  restoring' = NoDevice /\ SoundInOrder'
  <2>1. ~switchesCrossed /\ s.click /\ trouble # "astray" /\ trouble' = "half"
    BY <1>1, <1>6
  <2>2. restoring = NoDevice /\ sinks[Elements] = deviceId
    BY <1>1, <2>1 DEF DeviceInOrder, SwitchPromise
  <2> QED
    BY <1>1, <1>2, <2>1, <2>2 DEF SoundInOrder
<1>7. DeviceInOrder'
  BY <1>1, <1>2, <1>3, <1>6 DEF DeviceInOrder
<1> QED
  BY <1>5, <1>7

\* A switch is done: every element plays on what is stored now.
LEMMA SwitchedKeeps ==
  ASSUME DeviceTypeOK, DeviceInOrder, NEW i \in DOMAIN switches, Switched(i)
  PROVE  DeviceTypeOK' /\ DeviceInOrder'
<1> DEFINE s == switches[i]
<1>1. /\ s.moved = Elements /\ switches' = RemoveAt(switches, i)
      /\ UNCHANGED <<devicePanel, deviceTimers, marked, sinks, present, restoring, switchesCrossed>>
  BY DEF Switched
<1>2. \/ /\ deviceId' = (IF s.click THEN s.to ELSE deviceId)
         /\ listings' = (IF s.click /\ devicePanel THEN listings + 1 ELSE listings)
         /\ trouble' = IF switchesCrossed \/ (~s.click /\ trouble = "astray") THEN "astray" ELSE "none"
      \/ trouble' = "astray" /\ UNCHANGED <<deviceId, listings>>
  BY DEF Switched, Concluded
<1>3. /\ switches' \in Seq(Switching) /\ s \in Switching
      /\ ~switchesCrossed => switches' = <<>> /\ Len(switches') <= 1 /\ DOMAIN switches' = {}
  BY <1>1, SwitchEnds
<1>4. deviceId' \in Device /\ listings' \in Nat /\ trouble' \in Troubles
  BY <1>2, <1>3 DEF DeviceTypeOK, Switching, Troubles
<1>5. DeviceTypeOK'
  BY <1>1, <1>3, <1>4 DEF DeviceTypeOK, Switching
<1>6. ASSUME trouble' # "astray"
      PROVE  (restoring' # NoDevice => restoring' = deviceId') /\ SoundInOrder'
  <2>1. /\ ~switchesCrossed /\ (s.click \/ trouble # "astray")
        /\ deviceId' = (IF s.click THEN s.to ELSE deviceId)
    BY <1>2, <1>6
  <2>2. /\ HalfWay(s) /\ (s.click => restoring = NoDevice)
        /\ trouble # "astray" => SwitchPromise(s) /\ (restoring # NoDevice => restoring = deviceId)
    BY <2>1 DEF DeviceInOrder
  <2>3. s.to = deviceId'
    BY <2>1, <2>2 DEF SwitchPromise
  <2>4. \A e \in 1..Elements : sinks'[e] = deviceId'
    BY <1>1, <2>2, <2>3 DEF HalfWay
  <2>5. Elements \in 1..Elements
    BY DeviceAssumption
  <2> QED
    BY <1>1, <2>1, <2>2, <2>4, <2>5 DEF SoundInOrder
<1>7. listings' = 0 => marked' \in {NoDevice, deviceId'}
  <2>1. CASE UNCHANGED <<deviceId, listings>>
    BY <1>1, <2>1 DEF DeviceInOrder
  <2>2. CASE s.click /\ devicePanel /\ listings' = listings + 1
    BY <2>2 DEF DeviceTypeOK
  <2>3. CASE s.click /\ ~devicePanel
    BY <1>1, <2>3 DEF DeviceInOrder
  <2> QED
    BY <1>2, <2>1, <2>2, <2>3
<1>8. DeviceInOrder'
  BY <1>1, <1>3, <1>6, <1>7 DEF DeviceInOrder
<1> QED
  BY <1>5, <1>8

\* Every step of the panel, the switches and the timer keeps the order.
LEMMA DeviceStep ==
  DeviceTypeOK /\ DeviceInOrder /\ [DeviceNext]_deviceVars => DeviceTypeOK' /\ DeviceInOrder'
<1> SUFFICES ASSUME DeviceTypeOK, DeviceInOrder, [DeviceNext]_deviceVars
             PROVE  DeviceTypeOK' /\ DeviceInOrder'
  OBVIOUS
<1> DEFINE Sound == <<deviceId, sinks, restoring, switches, switchesCrossed, trouble>>
<1>s. ASSUME UNCHANGED Sound, devicePanel' \in BOOLEAN, {deviceTimers', listings'} \subseteq Nat,
             marked' \in Device \cup {NoDevice}, present' \subseteq Device,
             listings' = 0 => marked' \in {NoDevice, deviceId'}, ~devicePanel' => marked' = NoDevice
      PROVE  DeviceTypeOK' /\ DeviceInOrder'
  <2>1. DeviceTypeOK'
    BY <1>s DEF DeviceTypeOK
  <2>2. DeviceInOrder'
    BY <1>s DEF DeviceInOrder, HalfWay, SwitchPromise, SoundInOrder
  <2> QED
    BY <2>1, <2>2
<1>t. /\ devicePanel \in BOOLEAN /\ deviceTimers \in Nat /\ listings \in Nat
      /\ marked \in Device \cup {NoDevice} /\ deviceId \in Device /\ present \subseteq Device
      /\ listings = 0 => marked \in {NoDevice, deviceId}
      /\ ~devicePanel => marked = NoDevice
  BY DEF DeviceTypeOK, DeviceInOrder
<1>1. CASE RestartDevice
  <2>1. <<>> \in Seq(Switching) /\ Len(<<>>) = 0 /\ DOMAIN <<>> = {}
    BY NothingListed
  <2>2. /\ devicePanel' = FALSE /\ deviceTimers' = 0 /\ marked' = NoDevice
        /\ sinks' = [e \in 1..Elements |-> DefaultDevice]
        /\ restoring' = (IF deviceId = DefaultDevice THEN NoDevice ELSE deviceId)
        /\ switches' = <<>> /\ listings' = 0 /\ switchesCrossed' = FALSE /\ trouble' = "none"
        /\ UNCHANGED <<deviceId, present>>
    BY <1>1 DEF RestartDevice, DeviceStarts
  <2>3. deviceId \in Device /\ deviceId # NoDevice
    BY DeviceAssumption DEF DeviceTypeOK
  <2>6. sinks' \in [1..Elements -> Device] /\ deviceId' \in Device /\ present' \subseteq Device
    BY <2>2, <2>3, DeviceAssumption DEF DeviceTypeOK
  <2>7. restoring' \in Device \cup {NoDevice} /\ trouble' \in Troubles
    BY <2>2, <2>3 DEF Troubles
  <2>4. DeviceTypeOK'
    <3>4. {devicePanel', switchesCrossed'} \subseteq BOOLEAN
      BY <2>2, Zenon
    <3>1. {deviceTimers', listings'} \subseteq Nat
      BY <2>2
    <3>2. {marked', restoring'} \subseteq Device \cup {NoDevice}
      BY <2>2, <2>7
    <3>3. switches' \in Seq(Switching)
      BY <2>1, <2>2
    <3> QED
      BY <2>6, <2>7, <3>1, <3>2, <3>3, <3>4 DEF DeviceTypeOK, Switching
  <2>8. restoring' = NoDevice => SoundInOrder'
    BY <2>2, <2>3, DeviceAssumption DEF SoundInOrder
  <2>5. DeviceInOrder'
    BY <2>1, <2>2, <2>3, <2>8 DEF DeviceInOrder
  <2> QED
    BY <2>4, <2>5
<1>2. CASE OpenDevices
  BY <1>2, <1>s, <1>t DEF OpenDevices, historyVars
<1>3. CASE CloseDevices
  BY <1>3, <1>s, <1>t DEF CloseDevices, historyVars
<1>4. CASE DevicesClosed
  <2>1. deviceTimers' \in Nat
    BY <1>4, <1>t DEF DevicesClosed
  <2> QED
    BY <1>4, <1>s, <1>t, <2>1 DEF DevicesClosed, historyVars
<1>5. CASE DevicesListed
  <2>1. listings' \in Nat
    BY <1>5, <1>t DEF DevicesListed
  <2> QED
    BY <1>5, <1>s, <1>t, <2>1 DEF DevicesListed, historyVars
<1>6. CASE RestoreFires
  <2>1. restoring \in Device
    BY <1>6 DEF RestoreFires, DeviceTypeOK
  <2> QED
    BY <1>6, <2>1, SwitchBegins DEF RestoreFires
<1>7. ASSUME NEW d \in Device, ClickDevice(d)
      PROVE  DeviceTypeOK' /\ DeviceInOrder'
  BY <1>7, SwitchBegins DEF ClickDevice
<1>8. ASSUME NEW d \in Device, DevicePlugs(d)
      PROVE  DeviceTypeOK' /\ DeviceInOrder'
  <2>1. present' \subseteq Device
    BY <1>8, <1>t DEF DevicePlugs
  <2> QED
    BY <1>8, <1>s, <1>t, <2>1 DEF DevicePlugs, historyVars
<1>9. CASE UNCHANGED deviceVars
  BY <1>9, <1>s, <1>t DEF deviceVars
<1> QED
  BY <1>1, <1>2, <1>3, <1>4, <1>5, <1>6, <1>7, <1>8, <1>9, MoveKeeps, StayKeeps, SwitchedKeeps
     DEF DeviceNext

\* AudioDevicePanel.ts: for any number of elements and devices, a switch that stopped
\* half-way is not stored, and unless one did, switches crossed or the choice could
\* not be stored, all elements play on the device stored, which is the only one whose
\* row can be marked.
THEOREM SoundFollowsChoice == DeviceSpec => [](DeviceTypeOK /\ SoundGoesWhereChosen)
<1>1. DeviceInOrder => SoundGoesWhereChosen
  BY DEF DeviceInOrder, SoundInOrder, SoundGoesWhereChosen
<1> QED
  BY <1>1, DeviceStart, DeviceStep, PTL DEF DeviceSpec

-----------------------------------------------------------------------------
MenuOrder == [kind : OrderKinds, on : BOOLEAN]
SeedOrders == [kind : {"read", "answer", "seed"}, on : BOOLEAN]
TopOrders == [kind : {"top"}, on : BOOLEAN]

SeedsAgree == seedEnabled = seedStored /\ (seedStored => consent)

\* What the one order about seeding that is under way will bring about.
SeedPromise(o) ==
  /\ o.kind \in {"read", "answer"} => (seedStored => consent)
  /\ o.kind = "answer" => o.on = seedStored
  /\ o.kind = "seed" => o.on = seedEnabled /\ (o.on => consent)

SeedInOrder ==
  ~seedCrossed =>
    /\ Only(orders, SeedOrders)
    /\ \A i \in DOMAIN orders : orders[i] \in SeedOrders => SeedPromise(orders[i])
    /\ NoneOf(orders, SeedOrders) => SeedsAgree

WindowInOrder ==
  ~topCrossed =>
    /\ Only(orders, TopOrders)
    /\ \A i \in DOMAIN orders : orders[i] \in TopOrders => orders[i].on = IsOnTop
    /\ NoneOf(orders, TopOrders) => windowOnTop = IsOnTop

\* The kinds of orders, as the menu's own operators tell them apart.
LEMMA OrderedKinds ==
  ASSUME MenuTypeOK
  PROVE  /\ orders \in Seq(MenuOrder)
         /\ NoneOf(orders, SeedOrders) <=> ~Ordered({"read", "answer", "seed"})
         /\ NoneOf(orders, TopOrders) <=> ~Ordered({"top"})
         /\ SeedOrders \cap TopOrders = {}
         /\ \A i \in DOMAIN orders :
              /\ orders[i] \in SeedOrders <=> orders[i].kind \in {"read", "answer", "seed"}
              /\ orders[i] \in TopOrders <=> orders[i].kind = "top"
<1>1. orders \in Seq(MenuOrder)
  BY DEF MenuTypeOK, MenuOrder
<1>2. ASSUME NEW i \in DOMAIN orders
      PROVE  /\ orders[i] \in SeedOrders <=> orders[i].kind \in {"read", "answer", "seed"}
             /\ orders[i] \in TopOrders <=> orders[i].kind = "top"
  <2>1. orders[i] \in MenuOrder
    BY <1>1
  <2> QED
    BY <2>1 DEF MenuOrder, SeedOrders, TopOrders
<1>3. SeedOrders \cap TopOrders = {}
  BY DEF SeedOrders, TopOrders
<1> QED
  BY <1>1, <1>2, <1>3 DEF NoneOf, Ordered

\* The calls that the menu makes have their type.
LEMMA SomeOrders ==
  ASSUME NEW on \in BOOLEAN
  PROVE  /\ Order("read", on) \in SeedOrders \ TopOrders /\ Order("read", on) \in MenuOrder
         /\ Order("answer", on) \in SeedOrders \ TopOrders /\ Order("answer", on) \in MenuOrder
         /\ Order("seed", on) \in SeedOrders \ TopOrders /\ Order("seed", on) \in MenuOrder
         /\ Order("top", on) \in TopOrders \ SeedOrders /\ Order("top", on) \in MenuOrder
         /\ Order("bottom", on) \in MenuOrder \ (TopOrders \cup SeedOrders)
         /\ \A kind : Order(kind, on).kind = kind /\ Order(kind, on).on = on
BY DEF Order, MenuOrder, OrderKinds, SeedOrders, TopOrders

\* An order about seeding begins; or another one does, which is left aside.
LEMMA SeedBegins ==
  ASSUME MenuTypeOK, SeedInOrder, NEW o \in MenuOrder, orders' = Append(orders, o),
         seedCrossed' \in BOOLEAN,
         IF o \in SeedOrders THEN ~seedCrossed' => NoneOf(orders, SeedOrders) /\ SeedPromise(o)'
         ELSE UNCHANGED <<seedVars, seedCrossed>>
  PROVE  SeedInOrder'
<1>1. PICK s \in Seq(MenuOrder) : s = orders
  BY OrderedKinds
<1>2. PICK t : t = Append(s, o)
  OBVIOUS
<1>3. /\ DOMAIN t = DOMAIN s \cup {Len(s) + 1} /\ t[Len(s) + 1] = o
      /\ \A j \in DOMAIN s : t[j] = s[j]
  BY <1>2, OneMore
<1>4. CASE o \in SeedOrders
  <2>1. ASSUME ~seedCrossed'
        PROVE  /\ Only(t, SeedOrders) /\ ~NoneOf(t, SeedOrders)
               /\ \A i \in DOMAIN t : t[i] \in SeedOrders => t[i] = o
    <3>1. NoneOf(s, SeedOrders)
      BY <1>1, <1>4, <2>1
    <3> QED
      BY <1>3, <1>4, <3>1 DEF Only, NoneOf
  <2> QED
    BY <1>1, <1>2, <1>4, <2>1 DEF SeedInOrder
<1>5. CASE o \notin SeedOrders
  <2>1. /\ Only(s, SeedOrders) => Only(t, SeedOrders)
        /\ NoneOf(t, SeedOrders) => NoneOf(s, SeedOrders)
        /\ \A i \in DOMAIN t : t[i] \in SeedOrders => i \in DOMAIN s /\ t[i] = s[i]
    BY <1>3, <1>5 DEF Only, NoneOf
  <2> QED
    BY <1>1, <1>2, <1>5, <2>1 DEF SeedInOrder, SeedPromise, SeedsAgree, seedVars
<1> QED
  BY <1>4, <1>5

\* The same of the orders about the window.
LEMMA WindowBegins ==
  ASSUME MenuTypeOK, WindowInOrder, NEW o \in MenuOrder, orders' = Append(orders, o),
         topCrossed' \in BOOLEAN,
         IF o \in TopOrders THEN ~topCrossed' => NoneOf(orders, TopOrders) /\ o.on = IsOnTop'
         ELSE UNCHANGED <<topVars, topCrossed>>
  PROVE  WindowInOrder'
<1>1. PICK s \in Seq(MenuOrder) : s = orders
  BY OrderedKinds
<1>2. PICK t : t = Append(s, o)
  OBVIOUS
<1>3. /\ DOMAIN t = DOMAIN s \cup {Len(s) + 1} /\ t[Len(s) + 1] = o
      /\ \A j \in DOMAIN s : t[j] = s[j]
  BY <1>2, OneMore
<1>4. CASE o \in TopOrders
  <2>1. ASSUME ~topCrossed'
        PROVE  /\ Only(t, TopOrders) /\ ~NoneOf(t, TopOrders)
               /\ \A i \in DOMAIN t : t[i] \in TopOrders => t[i] = o
    <3>1. NoneOf(s, TopOrders)
      BY <1>1, <1>4, <2>1
    <3> QED
      BY <1>3, <1>4, <3>1 DEF Only, NoneOf
  <2> QED
    BY <1>1, <1>2, <1>4, <2>1 DEF WindowInOrder
<1>5. CASE o \notin TopOrders
  <2>1. /\ Only(s, TopOrders) => Only(t, TopOrders)
        /\ NoneOf(t, TopOrders) => NoneOf(s, TopOrders)
        /\ \A i \in DOMAIN t : t[i] \in TopOrders => i \in DOMAIN s /\ t[i] = s[i]
    BY <1>3, <1>5 DEF Only, NoneOf
  <2> QED
    BY <1>1, <1>2, <1>5, <2>1 DEF WindowInOrder, IsOnTop, topVars
<1> QED
  BY <1>4, <1>5

\* An order about seeding ends and leaves agreement behind; or another one ends.
LEMMA SeedEnds ==
  ASSUME MenuTypeOK, SeedInOrder, NEW i \in DOMAIN orders, orders' = RemoveAt(orders, i),
         seedCrossed' \in BOOLEAN, ~seedCrossed' => ~seedCrossed,
         IF orders[i] \in SeedOrders
         THEN ~seedCrossed' /\ SeedPromise(orders[i]) => SeedsAgree'
         ELSE UNCHANGED seedVars
  PROVE  SeedInOrder'
<1>1. PICK s \in Seq(MenuOrder) : s = orders
  BY OrderedKinds
<1>2. PICK t : t = RemoveAt(s, i)
  OBVIOUS
<1>a. s \in Seq(MenuOrder) /\ i \in DOMAIN s
  BY <1>1
<1>3. /\ \A j \in DOMAIN t : \E k \in DOMAIN s \ {i} : t[j] = s[k]
      /\ \A k \in DOMAIN s \ {i} : \E j \in DOMAIN t : t[j] = s[k]
  <2>1. /\ t \in Seq(MenuOrder) /\ Len(t) = Len(s) - 1 /\ (Len(s) <= 1 => t = <<>>)
        /\ \A j \in DOMAIN t : \E k \in DOMAIN s \ {i} : t[j] = s[k]
        /\ \A k \in DOMAIN s \ {i} : \E j \in DOMAIN t : t[j] = s[k]
    BY ONLY <1>a, <1>2, RemovedOne
  <2> QED
    BY <2>1
<1>4. Only(s, SeedOrders) =>
        Only(t, SeedOrders) /\ (s[i] \in SeedOrders => NoneOf(t, SeedOrders))
  BY <1>1, <1>2, OnlyOneLess
<1>5. CASE s[i] \in SeedOrders
  <2>1. ASSUME ~seedCrossed'
        PROVE  Only(t, SeedOrders) /\ NoneOf(t, SeedOrders) /\ SeedsAgree'
    BY <1>1, <1>4, <1>5, <2>1 DEF SeedInOrder
  <2> QED
    BY <1>1, <1>2, <2>1 DEF SeedInOrder, NoneOf
<1>6. CASE s[i] \notin SeedOrders
  <2>1. NoneOf(t, SeedOrders) => NoneOf(s, SeedOrders)
    BY <1>3, <1>6 DEF NoneOf
  <2>2. ASSUME ~seedCrossed', NEW j \in DOMAIN t, t[j] \in SeedOrders
        PROVE  SeedPromise(t[j])'
    <3>1. PICK k \in DOMAIN s : t[j] = s[k]
      BY <1>3
    <3>2. SeedPromise(s[k])
      BY <1>1, <2>2, <3>1 DEF SeedInOrder
    <3> QED
      BY <1>1, <1>6, <3>1, <3>2 DEF SeedPromise, seedVars
  <2> QED
    BY <1>1, <1>2, <1>4, <1>6, <2>1, <2>2 DEF SeedInOrder, SeedsAgree, seedVars
<1> QED
  BY <1>5, <1>6

\* The window's call is answered, or fails: setOnTop, applyOnTop.
LEMMA WindowEnds ==
  ASSUME MenuTypeOK, WindowInOrder, NEW i \in DOMAIN orders, orders' = RemoveAt(orders, i),
         topCrossed' \in BOOLEAN, ~topCrossed' => ~topCrossed, UNCHANGED <<onTop, onTopMigrated>>,
         IF orders[i] \in TopOrders
         THEN ~topCrossed' /\ orders[i].on = IsOnTop => windowOnTop' = IsOnTop
         ELSE UNCHANGED windowOnTop
  PROVE  WindowInOrder'
<1>1. PICK s \in Seq(MenuOrder) : s = orders
  BY OrderedKinds
<1>2. PICK t : t = RemoveAt(s, i)
  OBVIOUS
<1>a. s \in Seq(MenuOrder) /\ i \in DOMAIN s
  BY <1>1
<1>3. /\ \A j \in DOMAIN t : \E k \in DOMAIN s \ {i} : t[j] = s[k]
      /\ \A k \in DOMAIN s \ {i} : \E j \in DOMAIN t : t[j] = s[k]
  <2>1. /\ t \in Seq(MenuOrder) /\ Len(t) = Len(s) - 1 /\ (Len(s) <= 1 => t = <<>>)
        /\ \A j \in DOMAIN t : \E k \in DOMAIN s \ {i} : t[j] = s[k]
        /\ \A k \in DOMAIN s \ {i} : \E j \in DOMAIN t : t[j] = s[k]
    BY ONLY <1>a, <1>2, RemovedOne
  <2> QED
    BY <2>1
<1>4. Only(s, TopOrders) =>
        Only(t, TopOrders) /\ (s[i] \in TopOrders => NoneOf(t, TopOrders))
  BY <1>1, <1>2, OnlyOneLess
<1>5. IsOnTop' = IsOnTop
  BY DEF IsOnTop
<1>6. CASE s[i] \in TopOrders
  <2>1. ASSUME ~topCrossed'
        PROVE  Only(t, TopOrders) /\ NoneOf(t, TopOrders) /\ windowOnTop' = IsOnTop
    BY <1>1, <1>4, <1>6, <2>1 DEF WindowInOrder
  <2> QED
    BY <1>1, <1>2, <1>5, <2>1 DEF WindowInOrder, NoneOf
<1>7. CASE s[i] \notin TopOrders
  <2>1. NoneOf(t, TopOrders) => NoneOf(s, TopOrders)
    BY <1>3, <1>7 DEF NoneOf
  <2>2. ASSUME ~topCrossed', NEW j \in DOMAIN t, t[j] \in TopOrders
        PROVE  t[j].on = IsOnTop
    BY <1>1, <1>3, <2>2 DEF WindowInOrder
  <2> QED
    BY <1>1, <1>2, <1>4, <1>5, <1>7, <2>1, <2>2 DEF WindowInOrder
<1> QED
  BY <1>6, <1>7

\* The orders the menu starts with restore the preference and the window.
LEMMA MenuStarts ==
  ASSUME orders' = <<Order("read", FALSE), Order("top", IsOnTop')>>, IsOnTop' \in BOOLEAN,
         (seedStored => consent)'
  PROVE  orders' \in Seq(MenuOrder) /\ SeedInOrder' /\ WindowInOrder'
<1>a. PICK a \in MenuOrder :
        a = Order("read", FALSE) /\ a \in SeedOrders /\ a \notin TopOrders /\ a.kind = "read"
  BY SomeOrders
<1>b. PICK on \in BOOLEAN : on = IsOnTop'
  OBVIOUS
<1>c. PICK b \in MenuOrder :
        b = Order("top", on) /\ b \in TopOrders /\ b \notin SeedOrders /\ b.on = on
  BY SomeOrders
<1>1. b = Order("top", IsOnTop') /\ b.on = IsOnTop'
  BY <1>b, <1>c
<1>2. PICK t \in Seq(MenuOrder) : t = <<a, b>>
  <2>1. <<a, b>> \in Seq(MenuOrder)
    BY ONLY a \in MenuOrder, b \in MenuOrder
  <2> QED
    BY <2>1
<1>3. DOMAIN t = {1, 2} /\ t[1] = a /\ t[2] = b /\ orders' = t
  BY <1>a, <1>1, <1>2
<1>4. /\ Only(t, SeedOrders) /\ ~NoneOf(t, SeedOrders)
      /\ Only(t, TopOrders) /\ ~NoneOf(t, TopOrders)
      /\ \A i \in DOMAIN t : /\ t[i] \in SeedOrders => t[i] = a
                             /\ t[i] \in TopOrders => t[i] = b
  BY <1>a, <1>c, <1>3 DEF Only, NoneOf
<1>5. SeedPromise(a)'
  BY <1>a DEF SeedPromise
<1>6. SeedInOrder'
  BY <1>a, <1>3, <1>4, <1>5 DEF SeedInOrder
<1>7. WindowInOrder'
  BY <1>1, <1>c, <1>3, <1>4 DEF WindowInOrder
<1> QED
  BY <1>3, <1>6, <1>7

\* initGoampMenu: the two calls the menu starts with.
LEMMA MenuFirst == MenuInit => MenuTypeOK /\ SeedInOrder /\ WindowInOrder
<1> SUFFICES ASSUME MenuInit
             PROVE  MenuTypeOK /\ SeedInOrder /\ WindowInOrder
  OBVIOUS
<1>a. PICK a \in MenuOrder :
        a = Order("read", FALSE) /\ a \in SeedOrders /\ a \notin TopOrders /\ a.kind = "read"
  BY SomeOrders
<1>b. PICK on \in BOOLEAN : on = IsOnTop
  BY Zenon DEF IsOnTop
<1>c. PICK b \in MenuOrder :
        b = Order("top", on) /\ b \in TopOrders /\ b \notin SeedOrders /\ b.on = on
  BY SomeOrders
<1>2. b = Order("top", IsOnTop) /\ b.on = IsOnTop
  BY <1>b, <1>c
<1>3. PICK t \in Seq(MenuOrder) : t = <<a, b>>
  <2>1. <<a, b>> \in Seq(MenuOrder)
    BY ONLY a \in MenuOrder, b \in MenuOrder
  <2> QED
    BY <2>1
<1>4. DOMAIN t = {1, 2} /\ t[1] = a /\ t[2] = b /\ orders = t
  <2>1. orders = <<Order("read", FALSE), Order("top", IsOnTop)>>
    BY DEF MenuInit
  <2> QED
    BY <1>a, <1>2, <1>3, <2>1
<1>5. /\ Only(t, SeedOrders) /\ ~NoneOf(t, SeedOrders)
      /\ Only(t, TopOrders) /\ ~NoneOf(t, TopOrders)
      /\ \A i \in DOMAIN t : /\ t[i] \in SeedOrders => t[i] = a
                             /\ t[i] \in TopOrders => t[i] = b
  BY <1>a, <1>c, <1>4 DEF Only, NoneOf
<1>6. SeedPromise(a)
  BY <1>a DEF SeedPromise, MenuInit
<1>7. SeedInOrder
  BY <1>a, <1>4, <1>5, <1>6 DEF SeedInOrder
<1>8. WindowInOrder
  BY <1>2, <1>c, <1>4, <1>5 DEF WindowInOrder
<1>9. {menuOpen, ticked, seedEnabled, seedStored, consent, onTopMigrated, windowOnTop, seedCrossed,
       topCrossed} \subseteq BOOLEAN
  BY Zenon DEF MenuInit
<1>10. MenuTypeOK
  BY <1>4, <1>9 DEF MenuInit, MenuTypeOK, MenuOrder
<1> QED
  BY <1>7, <1>8, <1>10

\* Seeding is switched in the menu: on only if the user agrees.
LEMMA ClickSeedKeeps ==
  ASSUME MenuTypeOK, SeedInOrder, WindowInOrder, NEW agrees \in BOOLEAN, ClickSeed(agrees)
  PROVE  orders' \in Seq(MenuOrder) /\ seedCrossed' \in BOOLEAN /\ SeedInOrder' /\ WindowInOrder'
<1>1. UNCHANGED <<seedStored, onTop, onTopMigrated, windowOnTop, topCrossed>>
  BY DEF ClickSeed, topVars
<1>2. CASE MayToggleSeed(agrees)
  <2>1. PICK on \in BOOLEAN : on = ~seedEnabled
    BY DEF MenuTypeOK
  <2>2. PICK o \in MenuOrder :
          o = Order("seed", on) /\ o \in SeedOrders /\ o \notin TopOrders /\ o.kind = "seed" /\ o.on = on
    BY SomeOrders
  <2>3. /\ orders' = Append(orders, o) /\ seedEnabled' = on /\ consent' = (on /\ agrees)
        /\ seedCrossed' = Ordered({"read", "answer", "seed"})
    BY <1>2, <2>1, <2>2 DEF ClickSeed
  <2>4. on => agrees
    BY <1>2, <2>1 DEF MayToggleSeed
  <2>5. seedCrossed' \in BOOLEAN /\ (~seedCrossed' => NoneOf(orders, SeedOrders))
    BY <2>3, OrderedKinds DEF Ordered
  <2>6. SeedPromise(o)'
    BY <2>2, <2>3, <2>4 DEF SeedPromise
  <2>7. SeedInOrder'
    BY <2>2, <2>3, <2>5, <2>6, SeedBegins
  <2>8. WindowInOrder'
    BY <1>1, <2>2, <2>3, WindowBegins DEF topVars, MenuTypeOK
  <2> QED
    BY <2>2, <2>3, <2>5, <2>7, <2>8, OrderedKinds
<1>3. CASE ~MayToggleSeed(agrees)
  <2>1. UNCHANGED <<seedEnabled, consent, orders, seedCrossed>>
    BY <1>3 DEF ClickSeed
  <2> QED
    BY <1>1, <2>1, OrderedKinds
       DEF SeedInOrder, SeedPromise, SeedsAgree, WindowInOrder, IsOnTop, MenuTypeOK
<1> QED
  BY <1>2, <1>3

\* On-Top is switched in the menu, or taken away before the window goes to the back.
LEMMA SetOnTopKeeps ==
  ASSUME MenuTypeOK, SeedInOrder, WindowInOrder, NEW on \in BOOLEAN,
         NEW more \in {<<>>, <<Order("bottom", FALSE)>>}, SetOnTop(on, more),
         UNCHANGED <<seedVars, onTopMigrated, windowOnTop, seedCrossed>>
  PROVE  orders' \in Seq(MenuOrder) /\ topCrossed' \in BOOLEAN /\ SeedInOrder' /\ WindowInOrder'
<1>1. PICK o \in MenuOrder :
        o = Order("top", on) /\ o \in TopOrders /\ o \notin SeedOrders /\ o.on = on
  BY SomeOrders
<1>2. PICK b \in MenuOrder : b = Order("bottom", FALSE) /\ b \notin TopOrders /\ b \notin SeedOrders
  BY SomeOrders
<1>3. PICK s \in Seq(MenuOrder) : s = orders
  BY OrderedKinds
<1>4. PICK t \in Seq(MenuOrder) : t = Append(s, o)
  BY OneMore
<1>5. /\ orders' = IF more = <<>> THEN t ELSE Append(t, b)
      /\ onTop' = (IF on THEN "1" ELSE "0") /\ topCrossed' = Ordered({"top"})
  <2>1. s \o <<o>> = t
    BY <1>4
  <2>2. more = <<>> \/ (more # <<>> /\ more = <<b>>)
    BY <1>2
  <2>3. t \o <<>> = t /\ t \o <<b>> = Append(t, b)
    OBVIOUS
  <2>4. orders' = orders \o <<Order("top", on)>> \o more
    BY DEF SetOnTop
  <2> QED
    BY <1>1, <1>3, <2>1, <2>2, <2>3, <2>4 DEF SetOnTop
<1>6. IsOnTop' = on /\ topCrossed' \in BOOLEAN /\ (~topCrossed' => NoneOf(s, TopOrders))
  BY <1>3, <1>5, OrderedKinds DEF IsOnTop, Ordered
<1>7. PICK u \in Seq(MenuOrder) : u = orders'
  BY <1>5
<1>8. /\ DOMAIN s \subseteq DOMAIN u /\ \A j \in DOMAIN s : u[j] = s[j]
      /\ Len(s) + 1 \in DOMAIN u /\ Len(s) + 1 \notin DOMAIN s /\ u[Len(s) + 1] = o
      /\ \A j \in DOMAIN u : j \in DOMAIN s \/ j = Len(s) + 1 \/ u[j] = b
  BY <1>4, <1>5, <1>7
<1>9. ASSUME ~topCrossed'
      PROVE  /\ Only(u, TopOrders) /\ ~NoneOf(u, TopOrders)
             /\ \A i \in DOMAIN u : u[i] \in TopOrders => u[i] = o
  BY <1>1, <1>2, <1>6, <1>8, <1>9 DEF Only, NoneOf
<1>10. WindowInOrder'
  BY <1>1, <1>6, <1>7, <1>9 DEF WindowInOrder
<1>11. /\ Only(s, SeedOrders) => Only(u, SeedOrders)
       /\ NoneOf(u, SeedOrders) => NoneOf(s, SeedOrders)
       /\ \A i \in DOMAIN u : u[i] \in SeedOrders => i \in DOMAIN s /\ u[i] = s[i]
  BY <1>1, <1>2, <1>8 DEF Only, NoneOf
<1>12. SeedInOrder'
  BY <1>3, <1>7, <1>11 DEF SeedInOrder, SeedPromise, SeedsAgree, seedVars
<1> QED
  BY <1>6, <1>7, <1>10, <1>12

\* An order is carried out.
LEMMA OrderTakenKeeps ==
  ASSUME MenuTypeOK, SeedInOrder, WindowInOrder, NEW i \in DOMAIN orders, OrderTaken(i)
  PROVE  /\ orders' \in Seq(MenuOrder) /\ {seedEnabled', seedStored', windowOnTop'} \subseteq BOOLEAN
         /\ SeedInOrder' /\ WindowInOrder'
<1>1. PICK s \in Seq(MenuOrder) : s = orders
  BY OrderedKinds
<1>2. PICK o \in MenuOrder : o = s[i]
  BY <1>1
<1>3. /\ orders' = (IF o.kind = "read" THEN [orders EXCEPT ![i] = Order("answer", seedStored)]
                    ELSE RemoveAt(orders, i))
      /\ seedEnabled' = (IF o.kind = "answer" THEN o.on ELSE seedEnabled)
      /\ seedStored' = (IF o.kind = "seed" THEN o.on ELSE seedStored)
      /\ windowOnTop' = (IF o.kind = "top" THEN o.on ELSE windowOnTop)
      /\ UNCHANGED <<menuOpen, ticked, consent, onTop, onTopMigrated, seedCrossed, topCrossed>>
  BY <1>1, <1>2 DEF OrderTaken
<1>4. /\ o \in SeedOrders <=> o.kind \in {"read", "answer", "seed"}
      /\ o \in TopOrders <=> o.kind = "top"
  BY <1>1, <1>2, OrderedKinds
<1>5. {seedEnabled', seedStored', windowOnTop'} \subseteq BOOLEAN
  BY <1>2, <1>3 DEF MenuTypeOK, MenuOrder
<1>6. seedCrossed' \in BOOLEAN /\ topCrossed' \in BOOLEAN
  BY <1>3 DEF MenuTypeOK
<1>7. CASE o.kind = "read"
  <2>1. PICK a \in MenuOrder :
          /\ a = Order("answer", seedStored) /\ a \in SeedOrders /\ a \notin TopOrders
          /\ a.kind = "answer" /\ a.on = seedStored
    <3>1. PICK on \in BOOLEAN : on = seedStored
      BY DEF MenuTypeOK
    <3> QED
      BY <3>1, SomeOrders
  <2>2. PICK t : t = [s EXCEPT ![i] = a]
    OBVIOUS
  <2>3. /\ t \in Seq(MenuOrder) /\ DOMAIN t = DOMAIN s /\ t[i] = a
        /\ \A j \in DOMAIN s \ {i} : t[j] = s[j]
    BY <1>1, <2>2, OneChanged
  <2>4. orders' = t /\ UNCHANGED <<seedEnabled, seedStored, consent, windowOnTop>>
    BY <1>1, <1>3, <1>7, <2>1, <2>2
  <2>5. ASSUME ~seedCrossed'
        PROVE  /\ Only(t, SeedOrders) /\ ~NoneOf(t, SeedOrders)
               /\ \A j \in DOMAIN t : t[j] \in SeedOrders => t[j] = a
               /\ SeedPromise(a)'
    <3>1. Only(s, SeedOrders) /\ SeedPromise(o)
      BY <1>1, <1>2, <1>3, <1>4, <1>7, <2>5 DEF SeedInOrder
    <3>2. \A j \in DOMAIN s \ {i} : s[j] \notin SeedOrders
      BY <1>1, <1>2, <1>4, <1>7, <3>1 DEF Only
    <3> QED
      BY <1>1, <1>7, <2>1, <2>3, <2>4, <3>1, <3>2 DEF Only, NoneOf, SeedPromise
  <2>6. SeedInOrder'
    BY <2>4, <2>5 DEF SeedInOrder
  <2>7. /\ Only(s, TopOrders) => Only(t, TopOrders)
        /\ NoneOf(t, TopOrders) => NoneOf(s, TopOrders)
        /\ \A j \in DOMAIN t : t[j] \in TopOrders => t[j] = s[j]
    BY <1>1, <1>2, <1>4, <1>7, <2>1, <2>3 DEF Only, NoneOf
  <2>8. WindowInOrder'
    BY <1>1, <1>3, <2>3, <2>4, <2>7 DEF WindowInOrder, IsOnTop
  <2> QED
    BY <1>5, <2>3, <2>4, <2>6, <2>8
<1>8. CASE o.kind # "read"
  <2>1. orders' = RemoveAt(orders, i)
    BY <1>3, <1>8
  <2>2. SeedInOrder'
    <3>1. IF o \in SeedOrders THEN ~seedCrossed' /\ SeedPromise(o) => SeedsAgree' ELSE UNCHANGED seedVars
      BY <1>3, <1>4, <1>8 DEF SeedPromise, SeedsAgree, seedVars
    <3> QED
      BY <1>1, <1>2, <1>3, <1>6, <2>1, <3>1, SeedEnds
  <2>3. WindowInOrder'
    <3>1. IF o \in TopOrders THEN ~topCrossed' /\ o.on = IsOnTop => windowOnTop' = IsOnTop
          ELSE UNCHANGED windowOnTop
      BY <1>3, <1>4
    <3> QED
      BY <1>1, <1>2, <1>3, <1>6, <2>1, <3>1, WindowEnds
  <2>4. orders' \in Seq(MenuOrder)
    BY <1>1, <2>1, OneLess
  <2> QED
    BY <1>5, <2>2, <2>3, <2>4
<1> QED
  BY <1>7, <1>8

\* A call of the menu fails.
LEMMA OrderFailsKeeps ==
  ASSUME MenuTypeOK, SeedInOrder, WindowInOrder, NEW i \in DOMAIN orders, OrderFails(i)
  PROVE  /\ orders' \in Seq(MenuOrder) /\ {seedCrossed', topCrossed'} \subseteq BOOLEAN
         /\ SeedInOrder' /\ WindowInOrder'
<1>1. /\ orders' = RemoveAt(orders, i)
      /\ seedCrossed' = (seedCrossed \/ orders[i].kind \in {"read", "answer", "seed"})
      /\ topCrossed' = (topCrossed \/ orders[i].kind = "top")
      /\ UNCHANGED <<menuOpen, ticked, seedVars, topVars>>
  BY DEF OrderFails
<1>2. /\ orders[i] \in SeedOrders <=> orders[i].kind \in {"read", "answer", "seed"}
      /\ orders[i] \in TopOrders <=> orders[i].kind = "top"
  BY OrderedKinds
<1>3. {seedCrossed', topCrossed'} \subseteq BOOLEAN
  BY <1>1 DEF MenuTypeOK
<1>4. SeedInOrder'
  BY <1>1, <1>2, <1>3, SeedEnds
<1>5. WindowInOrder'
  BY <1>1, <1>2, <1>3, WindowEnds DEF topVars
<1>6. orders' \in Seq(MenuOrder)
  BY <1>1, OneLess, OrderedKinds
<1> QED
  BY <1>3, <1>4, <1>5, <1>6

\* Every click, order and restart keeps what the menu promises.
LEMMA MenuStep ==
  MenuTypeOK /\ SeedInOrder /\ WindowInOrder /\ [MenuNext]_menuVars
    => MenuTypeOK' /\ SeedInOrder' /\ WindowInOrder'
<1> SUFFICES ASSUME MenuTypeOK, SeedInOrder, WindowInOrder, [MenuNext]_menuVars
             PROVE  MenuTypeOK' /\ SeedInOrder' /\ WindowInOrder'
  OBVIOUS
<1>1. CASE OpenMenu \/ CloseMenu \/ UNCHANGED menuVars
  <2>1. UNCHANGED <<seedVars, topVars, orders, seedCrossed, topCrossed>>
    BY <1>1 DEF OpenMenu, CloseMenu, menuVars, seedVars, topVars
  <2>2. menuOpen' \in BOOLEAN /\ ticked' \in BOOLEAN
    BY <1>1 DEF OpenMenu, CloseMenu, menuVars, MenuTypeOK, IsOnTop
  <2>3. MenuTypeOK'
    BY <2>1, <2>2 DEF MenuTypeOK, seedVars, topVars
  <2>4. SeedInOrder' /\ WindowInOrder'
    BY <2>1 DEF SeedInOrder, SeedPromise, SeedsAgree, WindowInOrder, IsOnTop, seedVars, topVars
  <2> QED
    BY <2>3, <2>4
<1>2. ASSUME NEW agrees \in BOOLEAN, ClickSeed(agrees)
      PROVE  MenuTypeOK' /\ SeedInOrder' /\ WindowInOrder'
  <2>1. /\ UNCHANGED <<ticked, seedStored, topVars, topCrossed>>
        /\ {menuOpen', seedEnabled', consent'} \subseteq BOOLEAN
    BY <1>2 DEF ClickSeed, MenuTypeOK
  <2> QED
    BY <1>2, <2>1, ClickSeedKeeps DEF MenuTypeOK, MenuOrder, topVars
<1>3. CASE ClickOnTop
  <2>1. /\ SetOnTop(~ticked, <<>>) /\ menuOpen' = FALSE
        /\ UNCHANGED <<ticked, seedVars, onTopMigrated, windowOnTop, seedCrossed>>
    BY <1>3 DEF ClickOnTop
  <2>2. PICK on \in BOOLEAN : on = ~ticked
    BY DEF MenuTypeOK
  <2>3. SetOnTop(on, <<>>) /\ onTop' \in {"", "0", "1"}
    BY <2>1, <2>2 DEF SetOnTop
  <2> QED
    BY <2>1, <2>3, SetOnTopKeeps DEF MenuTypeOK, MenuOrder, seedVars
<1>4. CASE ClickToBottom
  <2>1. menuOpen' = FALSE /\ UNCHANGED <<ticked, seedVars, onTopMigrated, windowOnTop, seedCrossed>>
    BY <1>4 DEF ClickToBottom
  <2>2. CASE IsOnTop
    <3>1. SetOnTop(FALSE, <<Order("bottom", FALSE)>>) /\ onTop' \in {"", "0", "1"}
      BY <1>4, <2>2 DEF ClickToBottom, SetOnTop
    <3> QED
      BY <2>1, <3>1, SetOnTopKeeps DEF MenuTypeOK, MenuOrder, seedVars
  <2>3. CASE ~IsOnTop
    <3>1. PICK b \in MenuOrder :
            b = Order("bottom", FALSE) /\ b \notin TopOrders /\ b \notin SeedOrders
      BY SomeOrders
    <3>2. orders' = Append(orders, b) /\ UNCHANGED <<onTop, topCrossed>>
      BY <1>4, <2>3, <3>1 DEF ClickToBottom
    <3>3. SeedInOrder' /\ WindowInOrder'
      BY <2>1, <3>1, <3>2, SeedBegins, WindowBegins DEF MenuTypeOK, topVars
    <3>4. orders' \in Seq(MenuOrder)
      BY <3>2, OrderedKinds
    <3> QED
      BY <2>1, <3>2, <3>3, <3>4 DEF MenuTypeOK, MenuOrder, seedVars
  <2> QED
    BY <2>2, <2>3
<1>5. CASE RestartMenu
  <2>1. /\ orders' = <<Order("read", FALSE), Order("top", IsOnTop')>> /\ consent' = seedStored
        /\ UNCHANGED <<seedStored, onTop, onTopMigrated>>
    BY <1>5 DEF RestartMenu, IsOnTop
  <2>2. IsOnTop' \in BOOLEAN /\ (seedStored => consent)'
    BY <2>1 DEF IsOnTop
  <2>3. orders' \in Seq(MenuOrder) /\ SeedInOrder' /\ WindowInOrder'
    BY <2>1, <2>2, MenuStarts
  <2>4. {menuOpen', ticked', seedEnabled', windowOnTop', seedCrossed', topCrossed'} \subseteq BOOLEAN
    BY <1>5, Zenon DEF RestartMenu
  <2> QED
    BY <2>1, <2>3, <2>4 DEF MenuTypeOK, MenuOrder
<1>6. ASSUME NEW i \in DOMAIN orders, OrderTaken(i)
      PROVE  MenuTypeOK' /\ SeedInOrder' /\ WindowInOrder'
  <2>1. UNCHANGED <<menuOpen, ticked, consent, onTop, onTopMigrated, seedCrossed, topCrossed>>
    BY <1>6 DEF OrderTaken
  <2> QED
    BY <1>6, <2>1, OrderTakenKeeps DEF MenuTypeOK, MenuOrder
<1>7. ASSUME NEW i \in DOMAIN orders, OrderFails(i)
      PROVE  MenuTypeOK' /\ SeedInOrder' /\ WindowInOrder'
  <2>1. UNCHANGED <<menuOpen, ticked, seedVars, topVars>>
    BY <1>7 DEF OrderFails
  <2> QED
    BY <1>7, <2>1, OrderFailsKeeps DEF MenuTypeOK, MenuOrder, seedVars, topVars
<1> QED
  BY <1>1, <1>2, <1>3, <1>4, <1>5, <1>6, <1>7 DEF MenuNext

\* goamp-menu.ts, window-layer.ts: although the menu waits for none of its calls,
\* unless those about a choice overlapped or failed, at rest the choice holds - and
\* the backend seeds only what the user agreed to.
THEOREM MenuChoicesHold == MenuSpec => [](MenuTypeOK /\ ChoicesHold)
<1>1. MenuTypeOK /\ SeedInOrder /\ WindowInOrder => ChoicesHold
  BY OrderedKinds
     DEF SeedInOrder, WindowInOrder, SeedsAgree, ChoicesHold, SeedsOnlyByConsent, WindowAsStored
<1> QED
  BY <1>1, MenuFirst, MenuStep, PTL DEF MenuSpec

-----------------------------------------------------------------------------
FlagCall == ListCall \cup SetCall

\* What the one call that concerns the boxes will bring about: the list it shows is
\* the one stored, and a box that was clicked is the one that differs.
BoxPromise(t) ==
  /\ t.here
  /\ t.step = "listed" => t.read = flagStored
  /\ t.step = "set" => boxes = [flagStored EXCEPT ![t.flag] = t.on] /\ flagStored[t.flag] = ~t.on
  /\ t.step \in {"refresh", "refreshed"} => boxes \in {NoBoxes, flagStored}

BoxesInOrder ==
  ~flagsCrossed["boxes"] =>
    /\ Len(toggles) <= 1
    /\ toggles = <<>> => boxes \in {NoBoxes, flagStored}
    /\ \A i \in DOMAIN toggles : BoxPromise(toggles[i])

CacheTrue == flagCache \in {flagStored, [f \in Flag |-> TRUE]}

CachePromise(t) ==
  /\ t.step = "set" => CacheTrue
  /\ t.step = "refreshed" => t.read = flagStored

CacheInOrder ==
  ~flagsCrossed["cache"] =>
    /\ Only(toggles, SetCall)
    /\ \A i \in DOMAIN toggles : CachePromise(toggles[i])
    /\ NoneOf(toggles, SetCall) => CacheTrue

\* The calls, told apart by what they do next.
LEMMA FlagCalls ==
  ASSUME NEW t \in FlagCall
  PROVE  /\ t \in SetCall <=> t.step \in {"set", "refresh", "refreshed"}
         /\ t \in ListCall <=> t.step \in {"list", "listed"}
         /\ t.here \in BOOLEAN /\ t.read \in FlagValues
         /\ t \in SetCall => t.flag \in Flag /\ t.on \in BOOLEAN
BY DEF FlagCall, ListCall, SetCall

\* At the start nothing is under way, and no box is shown.
LEMMA FlagsStart == FlagsInit => FlagsTypeOK /\ BoxesInOrder /\ CacheInOrder
<1> SUFFICES ASSUME FlagsInit PROVE FlagsTypeOK /\ BoxesInOrder /\ CacheInOrder
  OBVIOUS
<1>1. toggles = <<>> /\ <<>> \in Seq(FlagCall) /\ Only(<<>>, SetCall) /\ Len(<<>>) = 0 /\ DOMAIN <<>> = {}
  BY NothingListed DEF FlagsInit
<1>2. FlagsTypeOK
  <2>1. toggles \in Seq(FlagCall) /\ flagsCrossed \in [{"boxes", "cache"} -> BOOLEAN]
    BY <1>1 DEF FlagsInit
  <2>2. boxes = NoBoxes /\ flagCache \in FlagValues /\ flagStored \in FlagValues /\ ffVisible = FALSE
    BY DEF FlagsInit, FlagValues
  <2> QED
    BY <2>1, <2>2 DEF FlagsTypeOK, FlagCall
<1>3. BoxesInOrder /\ CacheInOrder
  BY <1>1 DEF FlagsInit, BoxesInOrder, CacheInOrder, CacheTrue
<1> QED
  BY <1>2, <1>3

\* A call goes on to its next step, and keeps its promises.
LEMMA CallGoesOn ==
  ASSUME FlagsTypeOK, BoxesInOrder, CacheInOrder, NEW i \in DOMAIN toggles, NEW q \in FlagCall,
         toggles' = [toggles EXCEPT ![i] = q], q \in SetCall <=> toggles[i] \in SetCall,
         UNCHANGED <<boxes, flagCache, flagsCrossed>>,
         flagStored' = flagStored \/ toggles[i].step = "set",
         BoxPromise(toggles[i]) => BoxPromise(q)',
         CachePromise(toggles[i]) => CachePromise(q)'
  PROVE  toggles' \in Seq(FlagCall) /\ BoxesInOrder' /\ CacheInOrder'
<1>1. PICK s \in Seq(FlagCall) : s = toggles
  BY DEF FlagsTypeOK, FlagCall
<1>2. PICK t \in Seq(FlagCall) : t = [s EXCEPT ![i] = q]
  BY <1>1
<1>3. /\ Len(t) = Len(s) /\ DOMAIN t = DOMAIN s /\ t[i] = q /\ i \in DOMAIN s
      /\ \A j \in DOMAIN s \ {i} : t[j] = s[j]
  BY <1>1, <1>2, OneChanged
<1>4. s' = s /\ t' = t /\ toggles' = t /\ Len(t) \in Nat /\ DOMAIN t = 1..Len(t)
  BY <1>1, <1>2
<1>5. ASSUME ~flagsCrossed["boxes"]
      PROVE  Len(t) <= 1 /\ t # <<>> /\ \A j \in DOMAIN t : BoxPromise(t[j])'
  <2>1. Len(s) <= 1 /\ BoxPromise(s[i])
    BY <1>1, <1>3, <1>5 DEF BoxesInOrder
  <2>2. DOMAIN t = {i} /\ t # <<>>
    BY ONLY <1>3, <1>4, <2>1, Len(t) \in Nat
  <2> QED
    BY <1>1, <1>3, <2>1, <2>2
<1>6. BoxesInOrder'
  BY <1>4, <1>5 DEF BoxesInOrder
<1>7. ASSUME ~flagsCrossed["cache"]
      PROVE  /\ Only(t, SetCall) /\ \A j \in DOMAIN t : CachePromise(t[j])'
             /\ NoneOf(t, SetCall) => CacheTrue'
  <2>1. Only(s, SetCall) /\ (\A j \in DOMAIN s : CachePromise(s[j]))
        /\ (NoneOf(s, SetCall) => CacheTrue)
    BY <1>1, <1>7 DEF CacheInOrder
  <2>2. s[i] \in SetCall \/ q \notin SetCall
    BY <1>1
  <2>3. Only(t, SetCall) /\ (s[i] \in SetCall => \A j \in DOMAIN s \ {i} : s[j] \notin SetCall)
    BY <1>2, <1>3, <2>1, <2>2, OnlyOneChanged
  <2>4. NoneOf(t, SetCall) => NoneOf(s, SetCall) /\ s[i] \notin SetCall
    BY <1>1, <1>3 DEF NoneOf
  <2>5. s[i] \in FlagCall /\ (s[i].step = "set" => s[i] \in SetCall)
    BY <1>3, FlagCalls
  <2>6. NoneOf(t, SetCall) => CacheTrue'
    BY <1>1, <2>1, <2>4, <2>5 DEF CacheTrue
  <2>7. ASSUME NEW j \in DOMAIN t, j # i
        PROVE  CachePromise(t[j])'
    <3>1. t[j] = s[j] /\ s[j] \in FlagCall /\ CachePromise(s[j])
      BY <1>3, <2>1, <2>7
    <3>2. CASE flagStored' = flagStored
      BY <1>4, <3>1, <3>2 DEF CachePromise, CacheTrue
    <3>3. CASE s[i].step = "set"
      <4>1. s[j].step \notin {"set", "refreshed"}
        BY <1>3, <2>3, <2>5, <2>7, <3>1, <3>3, FlagCalls
      <4> QED
        BY <1>4, <3>1, <4>1 DEF CachePromise
    <3> QED
      BY <1>1, <3>2, <3>3
  <2>8. CachePromise(t[i])'
    BY <1>1, <1>3, <1>4, <2>1
  <2> QED
    BY <2>3, <2>6, <2>7, <2>8
<1>8. CacheInOrder'
  BY <1>4, <1>7 DEF CacheInOrder
<1> QED
  BY <1>4, <1>6, <1>8

\* The backend reads the table for a call.
LEMMA FlagsReadKeeps ==
  ASSUME FlagsTypeOK, BoxesInOrder, CacheInOrder, NEW i \in DOMAIN toggles, FlagsRead(i)
  PROVE  FlagsTypeOK' /\ BoxesInOrder' /\ CacheInOrder'
<1> DEFINE t == toggles[i]
           next == IF t.step = "list" THEN "listed" ELSE "refreshed"
<1>1. toggles \in Seq(FlagCall) /\ flagStored \in FlagValues
  BY DEF FlagsTypeOK, FlagCall
<1>2. t \in FlagCall /\ t.step \in {"list", "refresh"}
  BY <1>1 DEF FlagsRead
<1> HIDE DEF t
<1>3. [t EXCEPT !.read = flagStored, !.step = next] \in FlagCall
  BY <1>1, <1>2 DEF FlagCall, ListCall, SetCall
<1>4. PICK q \in FlagCall : q = [t EXCEPT !.read = flagStored, !.step = next]
  BY <1>3
<1>5. /\ q.here = t.here /\ q.read = flagStored /\ q.step = next
      /\ q \in SetCall <=> t \in SetCall
  BY <1>1, <1>2, <1>4 DEF FlagCall, ListCall, SetCall
<1>6. toggles' = [toggles EXCEPT ![i] = q]
  BY <1>1, <1>4 DEF FlagsRead, t
<1>7. UNCHANGED <<ffVisible, boxes, flagCache, flagStored, flagsCrossed>>
  BY DEF FlagsRead
<1>8. BoxPromise(t) => BoxPromise(q)'
  BY <1>2, <1>5, <1>7 DEF BoxPromise
<1>9. CachePromise(t) => CachePromise(q)'
  BY <1>2, <1>5, <1>7 DEF CachePromise
<1>10. toggles' \in Seq(FlagCall) /\ BoxesInOrder' /\ CacheInOrder'
  BY <1>5, <1>6, <1>7, <1>8, <1>9, CallGoesOn DEF t
<1> QED
  BY <1>7, <1>10 DEF FlagsTypeOK, FlagCall

\* The backend stores a flag.
LEMMA FlagSetKeeps ==
  ASSUME FlagsTypeOK, BoxesInOrder, CacheInOrder, NEW i \in DOMAIN toggles, FlagSet(i)
  PROVE  FlagsTypeOK' /\ BoxesInOrder' /\ CacheInOrder'
<1> DEFINE t == toggles[i]
<1>1. toggles \in Seq(FlagCall) /\ flagStored \in FlagValues
  BY DEF FlagsTypeOK, FlagCall
<1>2. t \in FlagCall /\ t.step = "set"
  BY <1>1 DEF FlagSet
<1> HIDE DEF t
<1>3. [t EXCEPT !.step = "refresh"] \in FlagCall /\ t.flag \in Flag /\ t.on \in BOOLEAN /\ t \in SetCall
  BY <1>1, <1>2 DEF FlagCall, ListCall, SetCall
<1>4. PICK q \in FlagCall : q = [t EXCEPT !.step = "refresh"]
  BY <1>3
<1>5. q.here = t.here /\ q.step = "refresh" /\ q \in SetCall
  BY <1>1, <1>2, <1>4 DEF FlagCall, ListCall, SetCall
<1>6. toggles' = [toggles EXCEPT ![i] = q]
  BY <1>1, <1>4 DEF FlagSet, t
<1>7. UNCHANGED <<ffVisible, boxes, flagCache, flagsCrossed>>
      /\ flagStored' = [flagStored EXCEPT ![t.flag] = t.on]
  BY DEF FlagSet, t
<1>8. BoxPromise(t) => BoxPromise(q)'
  BY <1>2, <1>5, <1>7 DEF BoxPromise
<1>9. CachePromise(t) => CachePromise(q)'
  BY <1>2, <1>5, <1>7 DEF CachePromise
<1>10. toggles' \in Seq(FlagCall) /\ BoxesInOrder' /\ CacheInOrder'
  BY <1>2, <1>3, <1>5, <1>6, <1>7, <1>8, <1>9, CallGoesOn DEF t
<1>11. flagStored' \in FlagValues
  BY <1>1, <1>3, <1>7 DEF FlagValues
<1> QED
  BY <1>7, <1>10, <1>11 DEF FlagsTypeOK, FlagCall

\* A call begins.
LEMMA FlagCallBegins ==
  ASSUME FlagsTypeOK, BoxesInOrder, CacheInOrder, NEW c \in FlagCall, toggles' = Append(toggles, c),
         UNCHANGED <<flagCache, flagStored>>,
         ~flagsCrossed'["boxes"] => toggles = <<>> /\ BoxPromise(c)',
         IF c \in SetCall
         THEN ~flagsCrossed'["cache"] =>
                toggles = <<>> /\ ~flagsCrossed["cache"] /\ (CacheTrue => CachePromise(c)')
         ELSE flagsCrossed'["cache"] = flagsCrossed["cache"]
  PROVE  toggles' \in Seq(FlagCall) /\ BoxesInOrder' /\ CacheInOrder'
<1>1. PICK s \in Seq(FlagCall) : s = toggles
  BY DEF FlagsTypeOK, FlagCall
<1>2. PICK t \in Seq(FlagCall) : t = Append(s, c)
  BY OneMore
<1>3. /\ DOMAIN t = DOMAIN s \cup {Len(s) + 1} /\ t[Len(s) + 1] = c
      /\ \A j \in DOMAIN s : t[j] = s[j]
  BY <1>2, OneMore
<1>4. s = <<>> => Len(t) = 1 /\ t # <<>> /\ DOMAIN t = {1} /\ t[1] = c
  BY <1>2
<1>5. BoxesInOrder'
  BY <1>1, <1>2, <1>4 DEF BoxesInOrder
<1>6. CASE c \in SetCall
  <2>1. ASSUME s = <<>>
        PROVE  Only(t, SetCall) /\ ~NoneOf(t, SetCall) /\ NoneOf(s, SetCall)
    BY <1>3, <1>4, <1>6, <2>1 DEF Only, NoneOf
  <2>2. ASSUME ~flagsCrossed'["cache"]
        PROVE  /\ Only(t, SetCall) /\ ~NoneOf(t, SetCall)
               /\ \A j \in DOMAIN t : CachePromise(t[j])'
    <3>1. s = <<>> /\ ~flagsCrossed["cache"] /\ (CacheTrue => CachePromise(c)')
      BY <1>1, <1>6, <2>2
    <3>2. CacheTrue
      BY <1>1, <2>1, <3>1 DEF CacheInOrder
    <3> QED
      BY <1>4, <2>1, <3>1, <3>2
  <2>3. CacheInOrder'
    BY <1>1, <1>2, <2>2 DEF CacheInOrder
  <2> QED
    BY <1>1, <1>2, <1>5, <2>3
<1>7. CASE c \notin SetCall
  <2>1. ASSUME ~flagsCrossed["cache"]
        PROVE  /\ Only(t, SetCall) /\ (NoneOf(t, SetCall) => NoneOf(s, SetCall))
               /\ (NoneOf(s, SetCall) => CacheTrue)
               /\ \A j \in DOMAIN s : CachePromise(s[j])
    BY <1>1, <1>3, <1>7, <2>1 DEF Only, NoneOf, CacheInOrder
  <2>2. c.step \notin {"set", "refreshed"}
    BY <1>7, FlagCalls
  <2>3. ASSUME ~flagsCrossed["cache"], NEW j \in DOMAIN t
        PROVE  CachePromise(t[j])'
    <3>1. CachePromise(t[j]) \/ t[j] = c
      BY <1>3, <2>1, <2>3
    <3> QED
      BY <2>2, <3>1 DEF CachePromise, CacheTrue
  <2>4. (CacheTrue => CacheTrue') /\ (~flagsCrossed'["cache"] => ~flagsCrossed["cache"])
    BY <1>7 DEF CacheTrue
  <2>5. CacheInOrder'
    BY <1>1, <1>2, <2>1, <2>3, <2>4 DEF CacheInOrder
  <2> QED
    BY <1>1, <1>2, <1>5, <2>5
<1> QED
  BY <1>6, <1>7

\* A call ends, and the elements that others would fill may be replaced.
LEMMA FlagCallEnds ==
  ASSUME FlagsTypeOK, BoxesInOrder, CacheInOrder, NEW i \in DOMAIN toggles,
         NEW t \in Seq(FlagCall), toggles' = t, DOMAIN t = DOMAIN RemoveAt(toggles, i),
         \A j \in DOMAIN t : \E h \in BOOLEAN : t[j] = [RemoveAt(toggles, i)[j] EXCEPT !.here = h],
         UNCHANGED flagStored,
         ~flagsCrossed'["boxes"] =>
           ~flagsCrossed["boxes"] /\ (BoxPromise(toggles[i]) => boxes' \in {NoBoxes, flagStored}),
         ~flagsCrossed'["cache"] =>
           /\ ~flagsCrossed["cache"]
           /\ IF toggles[i] \in SetCall THEN CachePromise(toggles[i]) => CacheTrue'
              ELSE UNCHANGED flagCache
  PROVE  BoxesInOrder' /\ CacheInOrder'
<1>1. PICK s \in Seq(FlagCall) : s = toggles
  BY DEF FlagsTypeOK, FlagCall
<1>2. PICK r \in Seq(FlagCall) : r = RemoveAt(s, i)
  BY <1>1, OneLess
<1>3. /\ Len(r) = Len(s) - 1 /\ (Len(s) <= 1 => r = <<>>)
      /\ \A j \in DOMAIN r : \E k \in DOMAIN s \ {i} : r[j] = s[k]
      /\ \A k \in DOMAIN s \ {i} : \E j \in DOMAIN r : r[j] = s[k]
  <2>1. i \in DOMAIN s
    BY <1>1
  <2> QED
    BY ONLY <1>2, <2>1, s \in Seq(FlagCall), RemovedOne
<1>4. DOMAIN t = DOMAIN r /\ \A j \in DOMAIN r : \E h \in BOOLEAN : t[j] = [r[j] EXCEPT !.here = h]
  BY <1>1, <1>2
<1>5. \A j \in DOMAIN r : t[j].step = r[j].step /\ t[j].read = r[j].read
                          /\ (t[j] \in SetCall <=> r[j] \in SetCall)
  <2> TAKE j \in DOMAIN r
  <2>1. PICK h \in BOOLEAN : t[j] = [r[j] EXCEPT !.here = h]
    BY <1>4
  <2>2. r[j] \in FlagCall /\ t[j] \in FlagCall
    BY <1>2, <1>4
  <2>3. t[j].step = r[j].step /\ t[j].read = r[j].read
    BY <2>1, <2>2 DEF FlagCall, ListCall, SetCall
  <2> QED
    BY <2>2, <2>3, FlagCalls
<1>6. BoxesInOrder'
  <2>1. ASSUME ~flagsCrossed'["boxes"]
        PROVE  t = <<>> /\ boxes' \in {NoBoxes, flagStored}
    <3>1. Len(s) <= 1 /\ BoxPromise(s[i])
      BY <1>1, <2>1 DEF BoxesInOrder
    <3>2. DOMAIN t = {} /\ t \in Seq(FlagCall)
      BY <1>3, <1>4, <3>1
    <3> QED
      BY <1>1, <2>1, <3>1, <3>2
  <2>2. Len(<<>>) = 0 /\ DOMAIN <<>> = {}
    BY NothingListed
  <2> QED
    BY <2>1, <2>2 DEF BoxesInOrder
<1>7. ASSUME ~flagsCrossed'["cache"]
      PROVE  /\ Only(t, SetCall) /\ \A j \in DOMAIN t : CachePromise(t[j])'
             /\ NoneOf(t, SetCall) => CacheTrue'
  <2>1. /\ Only(s, SetCall) /\ (\A j \in DOMAIN s : CachePromise(s[j]))
        /\ (NoneOf(s, SetCall) => CacheTrue)
    BY <1>1, <1>7 DEF CacheInOrder
  <2>2. Only(r, SetCall) /\ (s[i] \in SetCall => NoneOf(r, SetCall))
    BY <1>1, <1>2, <2>1, OnlyOneLess
  <2>3. Only(t, SetCall) /\ (NoneOf(t, SetCall) <=> NoneOf(r, SetCall))
    BY <1>4, <1>5, <2>2 DEF Only, NoneOf
  <2>4. CASE s[i] \in SetCall
    <3>1. CacheTrue' /\ NoneOf(r, SetCall)
      BY <1>1, <1>7, <2>1, <2>2, <2>4
    <3>2. \A j \in DOMAIN t : t[j].step \notin {"set", "refreshed"}
      BY <1>2, <1>4, <1>5, <3>1, FlagCalls DEF NoneOf
    <3> QED
      BY <2>3, <3>1, <3>2 DEF CachePromise
  <2>5. CASE s[i] \notin SetCall
    <3>1. UNCHANGED flagCache /\ (CacheTrue => CacheTrue')
      BY <1>1, <1>7, <2>5 DEF CacheTrue
    <3>2. NoneOf(r, SetCall) => NoneOf(s, SetCall)
      BY <1>3, <2>5 DEF NoneOf
    <3>3. ASSUME NEW j \in DOMAIN t PROVE CachePromise(t[j])'
      <4>1. PICK k \in DOMAIN s : r[j] = s[k]
        BY <1>3, <1>4
      <4>2. CachePromise(r[j])
        BY <2>1, <4>1
      <4> QED
        BY <1>4, <1>5, <3>1, <4>2 DEF CachePromise
    <3> QED
      BY <2>1, <2>3, <3>1, <3>2, <3>3
  <2> QED
    BY <2>4, <2>5
<1>8. CacheInOrder'
  BY <1>7 DEF CacheInOrder
<1> QED
  BY <1>6, <1>8

\* The panel is opened, or closed.
LEMMA ToggleFlagsKeeps ==
  ASSUME FlagsTypeOK, BoxesInOrder, CacheInOrder, ToggleFlagsPanel
  PROVE  FlagsTypeOK' /\ BoxesInOrder' /\ CacheInOrder'
<1>1. ffVisible' \in BOOLEAN /\ UNCHANGED <<boxes, flagCache, flagStored>>
  BY DEF ToggleFlagsPanel, FlagsTypeOK
<1>2. CASE ffVisible
  BY <1>1, <1>2 DEF ToggleFlagsPanel, FlagsTypeOK, BoxesInOrder, BoxPromise, CacheInOrder,
     CachePromise, CacheTrue
<1>3. CASE ~ffVisible
  <2> DEFINE c == [step |-> "list", here |-> TRUE, read |-> flagStored]
  <2>1. c \in FlagCall /\ c \notin SetCall /\ c.here = TRUE /\ c.step = "list"
    BY DEF FlagsTypeOK, FlagCall, ListCall, SetCall
  <2> HIDE DEF c
  <2>2. /\ toggles' = Append(toggles, c)
        /\ flagsCrossed' = [flagsCrossed EXCEPT !["boxes"] = toggles # <<>>]
    BY <1>3 DEF ToggleFlagsPanel, c
  <2>3. /\ flagsCrossed' \in [{"boxes", "cache"} -> BOOLEAN]
        /\ flagsCrossed'["cache"] = flagsCrossed["cache"]
        /\ ~flagsCrossed'["boxes"] => toggles = <<>>
    BY <2>2 DEF FlagsTypeOK
  <2>4. PICK k \in FlagCall : k = c
    BY <2>1
  <2>5. BoxPromise(k)'
    BY <2>1, <2>4 DEF BoxPromise
  <2>6. toggles' \in Seq(FlagCall) /\ BoxesInOrder' /\ CacheInOrder'
    BY <1>1, <2>1, <2>2, <2>3, <2>4, <2>5, FlagCallBegins
  <2> QED
    BY <1>1, <2>3, <2>6 DEF FlagsTypeOK, FlagCall
<1> QED
  BY <1>2, <1>3

\* A box is changed.
LEMMA ChangeBoxKeeps ==
  ASSUME FlagsTypeOK, BoxesInOrder, CacheInOrder, NEW f \in Flag, ChangeBox(f)
  PROVE  FlagsTypeOK' /\ BoxesInOrder' /\ CacheInOrder'
<1> DEFINE c == [step |-> "set", here |-> TRUE, flag |-> f, on |-> ~boxes[f], read |-> flagStored]
<1>1. boxes \in FlagValues /\ flagStored \in FlagValues /\ boxes[f] \in BOOLEAN /\ (~boxes[f]) \in BOOLEAN
  <2>1. boxes \in FlagValues /\ flagStored \in FlagValues
    BY DEF ChangeBox, FlagsTypeOK
  <2>2. boxes[f] \in BOOLEAN
    BY <2>1 DEF FlagValues
  <2>3. (~boxes[f]) \in BOOLEAN
    BY Zenon
  <2> QED
    BY <2>1, <2>2, <2>3
<1>2. c \in SetCall
  BY <1>1 DEF SetCall
<1>3. PICK k \in SetCall : k = c
  BY <1>2
<1>4. k \in FlagCall /\ k.here = TRUE /\ k.step = "set" /\ k.flag = f /\ k.on = ~boxes[f]
  BY <1>3 DEF FlagCall
<1>5. /\ toggles' = Append(toggles, k) /\ boxes' = [boxes EXCEPT ![f] = ~@]
      /\ UNCHANGED <<ffVisible, flagCache, flagStored>>
  BY <1>3 DEF ChangeBox
<1>6. flagsCrossed' = [flagsCrossed EXCEPT !["boxes"] = @ \/ toggles # <<>>,
                                           !["cache"] = @ \/ toggles # <<>>]
  BY DEF ChangeBox
<1>7. /\ flagsCrossed' \in [{"boxes", "cache"} -> BOOLEAN]
      /\ ~flagsCrossed'["boxes"] => toggles = <<>> /\ ~flagsCrossed["boxes"]
      /\ ~flagsCrossed'["cache"] => toggles = <<>> /\ ~flagsCrossed["cache"]
  <2>1. /\ flagsCrossed \in [{"boxes", "cache"} -> BOOLEAN]
        /\ (flagsCrossed["boxes"] \/ toggles # <<>>) \in BOOLEAN
        /\ (flagsCrossed["cache"] \/ toggles # <<>>) \in BOOLEAN
    BY Zenon DEF FlagsTypeOK
  <2> QED
    BY <1>6, <2>1
<1>8. boxes' \in FlagValues
  BY <1>1, <1>5 DEF FlagValues
<1>9. ASSUME ~flagsCrossed'["boxes"] PROVE BoxPromise(k)'
  <2>1. boxes = flagStored
    BY <1>7, <1>9 DEF BoxesInOrder, ChangeBox
  <2> QED
    BY <1>1, <1>4, <1>5, <2>1 DEF BoxPromise, FlagValues
<1>10. CacheTrue => CachePromise(k)'
  BY <1>4, <1>5 DEF CachePromise, CacheTrue
<1>11. toggles' \in Seq(FlagCall) /\ BoxesInOrder' /\ CacheInOrder'
  BY <1>4, <1>5, <1>7, <1>9, <1>10, FlagCallBegins
<1> QED
  BY <1>5, <1>7, <1>8, <1>11 DEF FlagsTypeOK, FlagCall

\* The list is rendered with new boxes.
LEMMA FlagsListedKeeps ==
  ASSUME FlagsTypeOK, BoxesInOrder, CacheInOrder, NEW i \in DOMAIN toggles, FlagsListed(i)
  PROVE  FlagsTypeOK' /\ BoxesInOrder' /\ CacheInOrder'
<1>1. toggles \in Seq(FlagCall) /\ toggles[i] \in FlagCall /\ toggles[i].step = "listed"
  BY DEF FlagsTypeOK, FlagCall, FlagsListed
<1>2. PICK r \in Seq(FlagCall) : r = RemoveAt(toggles, i)
  BY <1>1, OneLess
<1> DEFINE t == [j \in DOMAIN r |->
                   [r[j] EXCEPT !.here = @ /\ r[j].step \in {"list", "listed"}]]
<1>3. /\ toggles' = t /\ boxes' = toggles[i].read
      /\ UNCHANGED <<ffVisible, flagCache, flagStored, flagsCrossed>>
  BY <1>2 DEF FlagsListed
<1>4. \A j \in DOMAIN r :
        /\ r[j] \in FlagCall
        /\ (r[j].here /\ r[j].step \in {"list", "listed"}) \in BOOLEAN
        /\ t[j] = [r[j] EXCEPT !.here = r[j].here /\ r[j].step \in {"list", "listed"}]
  BY <1>2
<1>5. DOMAIN t = DOMAIN r /\ Len(r) \in Nat /\ DOMAIN r = 1..Len(r)
  BY <1>2
<1> HIDE DEF t
<1>6. ASSUME NEW j \in DOMAIN r
      PROVE  t[j] \in FlagCall /\ \E h \in BOOLEAN : t[j] = [r[j] EXCEPT !.here = h]
  <2>1. PICK h \in BOOLEAN : h = (r[j].here /\ r[j].step \in {"list", "listed"})
    BY <1>4
  <2>2. t[j] = [r[j] EXCEPT !.here = h]
    BY <1>4, <2>1
  <2>3. [r[j] EXCEPT !.here = h] \in FlagCall
    <3>1. r[j] \in FlagCall
      BY <1>4
    <3>2. PICK call \in FlagCall : call = r[j]
      BY <3>1
    <3>3. call \in ListCall => [call EXCEPT !.here = h] \in ListCall
      BY <2>1 DEF ListCall
    <3>4. call \in SetCall => [call EXCEPT !.here = h] \in SetCall
      BY <2>1 DEF SetCall
    <3> QED
      BY <3>2, <3>3, <3>4 DEF FlagCall
  <2> QED
    BY <2>2, <2>3
<1>7. t \in Seq(FlagCall)
  <2>1. t = [j \in 1..Len(r) |-> t[j]]
    BY <1>5 DEF t
  <2> QED
    BY <1>5, <1>6, <2>1
<1>8. PICK u \in Seq(FlagCall) : u = t
  BY <1>7
<1>9. boxes' \in FlagValues /\ toggles[i] \notin SetCall
  BY <1>1, <1>3, FlagCalls
<1>10. BoxPromise(toggles[i]) => boxes' \in {NoBoxes, flagStored}
  BY <1>1, <1>3 DEF BoxPromise
<1>11. BoxesInOrder' /\ CacheInOrder'
  <2>1. /\ toggles' = u /\ DOMAIN u = DOMAIN RemoveAt(toggles, i)
        /\ \A j \in DOMAIN u :
             \E h \in BOOLEAN : u[j] = [RemoveAt(toggles, i)[j] EXCEPT !.here = h]
    BY <1>2, <1>3, <1>5, <1>6, <1>8
  <2> QED
    BY <1>3, <1>9, <1>10, <2>1, FlagCallEnds
<1> QED
  BY <1>3, <1>7, <1>9, <1>11 DEF FlagsTypeOK, FlagCall

\* A call ends otherwise: only its own place in the list goes.
LEMMA FlagCallGoes ==
  ASSUME FlagsTypeOK, BoxesInOrder, CacheInOrder, NEW i \in DOMAIN toggles,
         toggles' = RemoveAt(toggles, i), UNCHANGED flagStored,
         ~flagsCrossed'["boxes"] =>
           ~flagsCrossed["boxes"] /\ (BoxPromise(toggles[i]) => boxes' \in {NoBoxes, flagStored}),
         ~flagsCrossed'["cache"] =>
           /\ ~flagsCrossed["cache"]
           /\ IF toggles[i] \in SetCall THEN CachePromise(toggles[i]) => CacheTrue'
              ELSE UNCHANGED flagCache
  PROVE  toggles' \in Seq(FlagCall) /\ BoxesInOrder' /\ CacheInOrder'
<1>1. toggles \in Seq(FlagCall)
  BY DEF FlagsTypeOK, FlagCall
<1>2. PICK r \in Seq(FlagCall) : r = RemoveAt(toggles, i)
  BY <1>1, OneLess
<1>3. ASSUME NEW j \in DOMAIN r PROVE \E h \in BOOLEAN : r[j] = [r[j] EXCEPT !.here = h]
  <2>1. r[j] \in FlagCall
    BY <1>2
  <2>2. r[j].here \in BOOLEAN /\ r[j] = [r[j] EXCEPT !.here = r[j].here]
    BY <2>1 DEF FlagCall, ListCall, SetCall
  <2> QED
    BY <2>2
<1>4. toggles' = r /\ DOMAIN r = DOMAIN RemoveAt(toggles, i)
      /\ \A j \in DOMAIN r : \E h \in BOOLEAN : r[j] = [RemoveAt(toggles, i)[j] EXCEPT !.here = h]
  BY <1>2, <1>3
<1>5. BoxesInOrder' /\ CacheInOrder'
  BY <1>4, FlagCallEnds
<1> QED
  BY <1>2, <1>4, <1>5

\* A call fails: the box goes back, or the list is an error.
LEMMA FlagCallFailsKeeps ==
  ASSUME FlagsTypeOK, BoxesInOrder, CacheInOrder, NEW i \in DOMAIN toggles, FlagCallFails(i)
  PROVE  FlagsTypeOK' /\ BoxesInOrder' /\ CacheInOrder'
<1>1. PICK t \in FlagCall : t = toggles[i]
  BY DEF FlagsTypeOK, FlagCall
<1>2. /\ boxes' = (IF t.step \in {"list", "listed"} THEN NoBoxes ELSE Reverted(t))
      /\ toggles' = RemoveAt(toggles, i)
      /\ flagsCrossed' = (IF t.step \in {"list", "listed"} \/ t.step = "set" THEN flagsCrossed
                          ELSE [w \in {"boxes", "cache"} |-> TRUE])
      /\ UNCHANGED <<ffVisible, flagCache, flagStored>>
  BY <1>1 DEF FlagCallFails
<1>3. /\ t \in SetCall <=> t.step \in {"set", "refresh", "refreshed"}
      /\ t \in ListCall <=> t.step \in {"list", "listed"}
      /\ t \in SetCall => t.flag \in Flag /\ t.on \in BOOLEAN
  BY <1>1, FlagCalls
<1>4. boxes' \in FlagValues \cup {NoBoxes}
  <2>1. CASE t.step \in {"list", "listed"}
    BY <1>2, <2>1
  <2>2. CASE t.step \notin {"list", "listed"}
    <3>1. t \in SetCall
      BY <1>1, <1>3, <2>2 DEF FlagCall
    <3>2. boxes \in FlagValues => [boxes EXCEPT ![t.flag] = ~t.on] \in FlagValues
      BY <1>3, <3>1 DEF FlagValues
    <3> QED
      BY <1>2, <2>2, <3>2 DEF Reverted, FlagsTypeOK
  <2> QED
    BY <2>1, <2>2
<1>5. flagsCrossed' \in [{"boxes", "cache"} -> BOOLEAN]
  BY <1>2 DEF FlagsTypeOK
<1>6. ASSUME ~flagsCrossed'["boxes"], BoxPromise(t)
      PROVE  boxes' \in {NoBoxes, flagStored}
  <2>1. CASE t.step \in {"list", "listed"}
    BY <1>2, <2>1
  <2>2. CASE t.step = "set"
    <3>1. /\ boxes = [flagStored EXCEPT ![t.flag] = t.on] /\ flagStored[t.flag] = ~t.on
          /\ flagStored \in FlagValues /\ t.flag \in Flag
      BY <1>3, <1>6, <2>2 DEF BoxPromise, FlagsTypeOK
    <3>2. [boxes EXCEPT ![t.flag] = ~t.on] = flagStored
      BY <3>1 DEF FlagValues
    <3>3. t.here /\ boxes' = Reverted(t)
      BY <1>2, <1>6, <2>2 DEF BoxPromise
    <3> QED
      BY <3>2, <3>3 DEF Reverted
  <2>3. CASE t.step \notin {"list", "listed", "set"}
    <3>1. flagsCrossed'["boxes"] = TRUE
      BY <1>2, <2>3
    <3> QED
      BY <1>6, <3>1
  <2> QED
    BY <2>1, <2>2, <2>3
<1>7. /\ ~flagsCrossed'["boxes"] => ~flagsCrossed["boxes"]
      /\ ~flagsCrossed'["cache"] =>
           ~flagsCrossed["cache"] /\ (t \in SetCall => t.step = "set")
  BY <1>2, <1>3
<1>8. ASSUME ~flagsCrossed'["cache"], t \in SetCall, CachePromise(t)
      PROVE  CacheTrue'
  BY <1>2, <1>7, <1>8 DEF CachePromise, CacheTrue
<1>9. toggles' \in Seq(FlagCall) /\ BoxesInOrder' /\ CacheInOrder'
  BY <1>1, <1>2, <1>6, <1>7, <1>8, FlagCallGoes
<1> QED
  BY <1>2, <1>4, <1>5, <1>9 DEF FlagsTypeOK, FlagCall

\* Every step of the panel and of its calls keeps the order.
LEMMA FlagsStep ==
  FlagsTypeOK /\ BoxesInOrder /\ CacheInOrder /\ [FlagsNext]_flagVars
    => FlagsTypeOK' /\ BoxesInOrder' /\ CacheInOrder'
<1> SUFFICES ASSUME FlagsTypeOK, BoxesInOrder, CacheInOrder, [FlagsNext]_flagVars
             PROVE  FlagsTypeOK' /\ BoxesInOrder' /\ CacheInOrder'
  OBVIOUS
<1>1. ASSUME NEW i \in DOMAIN toggles, CacheRefreshed(i)
      PROVE  FlagsTypeOK' /\ BoxesInOrder' /\ CacheInOrder'
  <2>1. PICK t \in FlagCall : t = toggles[i]
    BY DEF FlagsTypeOK, FlagCall
  <2>2. /\ t.step = "refreshed" /\ flagCache' = t.read /\ toggles' = RemoveAt(toggles, i)
        /\ UNCHANGED <<ffVisible, boxes, flagStored, flagsCrossed>>
    BY <1>1, <2>1 DEF CacheRefreshed
  <2>3. t \in SetCall /\ flagCache' \in FlagValues
    BY <2>1, <2>2, FlagCalls
  <2>4. BoxPromise(t) => boxes' \in {NoBoxes, flagStored}
    BY <2>2 DEF BoxPromise
  <2>5. CachePromise(t) => CacheTrue'
    BY <2>2 DEF CachePromise, CacheTrue
  <2>6. toggles' \in Seq(FlagCall) /\ BoxesInOrder' /\ CacheInOrder'
    BY <2>1, <2>2, <2>3, <2>4, <2>5, FlagCallGoes
  <2> QED
    BY <2>2, <2>3, <2>6 DEF FlagsTypeOK, FlagCall
<1>2. CASE UNCHANGED flagVars
  BY <1>2 DEF flagVars, FlagsTypeOK, BoxesInOrder, BoxPromise, CacheInOrder, CachePromise, CacheTrue
<1> QED
  BY <1>1, <1>2, ToggleFlagsKeeps, ChangeBoxKeeps, FlagsReadKeeps, FlagSetKeeps, FlagsListedKeeps,
     FlagCallFailsKeeps DEF FlagsNext

\* FeatureFlagsPanel.ts, feature-flags-service.ts: for any number of flags and of
\* calls under way, unless they overlapped, or one failed after its flag was stored,
\* at rest the boxes and the cache are what the table holds.
THEOREM FlagsShown == FlagsSpec => [](FlagsTypeOK /\ BoxesShowFlags)
<1>1. FlagsTypeOK /\ BoxesInOrder /\ CacheInOrder => BoxesShowFlags
  <2>1. \A Q : NoneOf(<<>>, Q)
    BY DEF NoneOf
  <2> QED
    BY <2>1 DEF BoxesInOrder, CacheInOrder, CacheTrue, BoxesShowFlags
<1> QED
  BY <1>1, FlagsStart, FlagsStep, PTL DEF FlagsSpec

-----------------------------------------------------------------------------
\* What tasks about a playlist still have to call; only openPanel's is about none.
Plans == {<<"lists">>, <<"tracks">>, <<"lists", "tracks">>, <<"tracks", "lists">>,
          <<"edit", "tracks">>, <<"edit", "tracks", "lists">>, <<"play">>,
          <<"create", "lists">>, <<"delete", "lists">>}

PlannedTask == [of : Playlist, calls : Plans, here : BOOLEAN]
               \cup [of : {NoPlaylist}, calls : {<<"lists", "restore">>}, here : BOOLEAN]

ListTrue == listed = exists
ShownTrue ==
  shown = IF currentPlaylistId = NoPlaylist THEN Nothing
          ELSE [of |-> currentPlaylistId, edits |-> edits[currentPlaylistId]]

\* What the task that alone is under way will still render is what may be wrong.
SoleTask(t) ==
  \/ t.calls = <<"lists", "restore">> /\ currentPlaylistId = NoPlaylist /\ shown = Nothing
  \/ /\ t.calls \in {<<"lists", "tracks">>, <<"tracks", "lists">>}
     /\ t.of = currentPlaylistId /\ t.of # NoPlaylist
  \/ /\ t.calls \in {<<"tracks">>, <<"edit", "tracks", "lists">>, <<"edit", "tracks">>}
     /\ ListTrue /\ t.of = currentPlaylistId /\ t.of # NoPlaylist
  \/ t.calls = <<"lists">> /\ ShownTrue
  \/ t.calls \in {<<"delete", "lists">>, <<"create", "lists">>, <<"play">>} /\ ListTrue /\ ShownTrue

\* The two tasks of a selection.
Selection(s) ==
  /\ Len(s) = 2 /\ s[1].here /\ s[2].here
  /\ s[1].calls = <<"lists">> /\ s[2].calls = <<"tracks">>
  /\ s[2].of = currentPlaylistId /\ s[2].of # NoPlaylist

Orderly ==
  \/ tasks = <<>> /\ ListTrue /\ ShownTrue
  \/ Len(tasks) = 1 /\ tasks[1].here /\ SoleTask(tasks[1])
  \/ Selection(tasks)

PanelInOrder ==
  ~overlapped => IF panel THEN Orderly ELSE tasks = <<>> /\ currentPlaylistId = NoPlaylist

PanelInv == PanelTypeOK /\ tasks \in Seq(PlannedTask) /\ PanelInOrder

\* What each plan has left after its first call.
LEMMA PlanTails ==
  /\ Tail(<<"lists">>) = <<>> /\ Tail(<<"tracks">>) = <<>> /\ Tail(<<"play">>) = <<>>
  /\ Tail(<<"lists", "tracks">>) = <<"tracks">>
  /\ Tail(<<"tracks", "lists">>) = <<"lists">>
  /\ Tail(<<"edit", "tracks">>) = <<"tracks">>
  /\ Tail(<<"edit", "tracks", "lists">>) = <<"tracks", "lists">>
  /\ Tail(<<"create", "lists">>) = <<"lists">>
  /\ Tail(<<"delete", "lists">>) = <<"lists">>
OBVIOUS

\* The plans are made of calls, and this is how they go on.
LEMMA PlansGoOn ==
  /\ Plans \cup {<<"lists", "restore">>} \subseteq Seq(Calls) \ {<<>>}
  /\ \A c \in Plans :
       /\ Head(c) = "lists" <=> c \in {<<"lists">>, <<"lists", "tracks">>}
       /\ Head(c) = "tracks" <=> c \in {<<"tracks">>, <<"tracks", "lists">>}
       /\ Head(c) = "edit" <=> c \in {<<"edit", "tracks">>, <<"edit", "tracks", "lists">>}
       /\ Head(c) = "create" <=> c = <<"create", "lists">>
       /\ Head(c) = "delete" <=> c = <<"delete", "lists">>
       /\ Head(c) = "play" <=> c = <<"play">>
       /\ Tail(c) \in Plans \cup {<<>>}
       /\ Tail(c) # <<"restore">>
  /\ Head(<<"lists", "restore">>) = "lists" /\ Tail(<<"lists", "restore">>) = <<"restore">>
<1>1. Plans \cup {<<"lists", "restore">>} \subseteq Seq(Calls) \ {<<>>}
  BY DEF Plans, Calls
<1>2. Head(<<"lists", "restore">>) = "lists" /\ Tail(<<"lists", "restore">>) = <<"restore">>
  OBVIOUS
<1>3. ASSUME NEW c \in Plans
      PROVE  /\ Head(c) = "lists" <=> c \in {<<"lists">>, <<"lists", "tracks">>}
             /\ Head(c) = "tracks" <=> c \in {<<"tracks">>, <<"tracks", "lists">>}
             /\ Head(c) = "edit" <=> c \in {<<"edit", "tracks">>, <<"edit", "tracks", "lists">>}
             /\ Head(c) = "create" <=> c = <<"create", "lists">>
             /\ Head(c) = "delete" <=> c = <<"delete", "lists">>
             /\ Head(c) = "play" <=> c = <<"play">>
  BY DEF Plans
<1>4. ASSUME NEW c \in Plans
      PROVE  Tail(c) \in Plans \cup {<<>>} /\ Tail(c) # <<"restore">>
  <2>1. Tail(c) \in {<<>>, <<"tracks">>, <<"lists">>, <<"tracks", "lists">>}
    BY PlanTails, ZenonT(30) DEF Plans
  <2>2. /\ <<>> # <<"restore">> /\ <<"tracks">> # <<"restore">> /\ <<"lists">> # <<"restore">>
        /\ <<"tracks", "lists">> # <<"restore">>
    OBVIOUS
  <2>3. {<<>>, <<"tracks">>, <<"lists">>, <<"tracks", "lists">>} \subseteq Plans \cup {<<>>}
    BY DEF Plans
  <2> QED
    BY ONLY <2>1, <2>2, <2>3, Zenon
<1> QED
  BY <1>1, <1>2, <1>3, <1>4

\* Planned tasks have the type of tasks.
LEMMA PlannedAreTasks ==
  Seq(PlannedTask) \subseteq Seq([of : Playlist \cup {NoPlaylist}, calls : Seq(Calls), here : BOOLEAN])
<1>1. PlannedTask \subseteq [of : Playlist \cup {NoPlaylist}, calls : Seq(Calls), here : BOOLEAN]
  BY PlansGoOn DEF PlannedTask
<1> DEFINE T == [of : Playlist \cup {NoPlaylist}, calls : Seq(Calls), here : BOOLEAN]
<1> HIDE DEF T, PlannedTask
<1>2. ASSUME NEW s \in Seq(PlannedTask)
      PROVE  s \in Seq(T)
  <2>1. Len(s) \in Nat /\ s = [i \in 1..Len(s) |-> s[i]] /\ \A i \in 1..Len(s) : s[i] \in T
    BY <1>1 DEF T
  <2> QED
    BY <2>1
<1> QED
  BY <1>2 DEF T

\* The task i goes on with what its plan has left.
LEMMA TaskGoes ==
  ASSUME tasks \in Seq(PlannedTask), NEW i \in DOMAIN tasks, NEW rest \in Plans \cup {<<>>},
         rest # <<>> => tasks[i].of \in Playlist, panel \in BOOLEAN, Goes(i, rest)
  PROVE  /\ tasks' \in Seq(PlannedTask)
         /\ Len(tasks) = 1 => i = 1
         /\ Len(tasks) = 1 /\ rest = <<>> => tasks' = <<>>
         /\ Len(tasks) = 1 /\ rest # <<>> =>
              Len(tasks') = 1 /\ tasks'[1] = Task(tasks[i].of, rest, panel)
         /\ Len(tasks) = 2 /\ rest = <<>> => Len(tasks') = 1 /\ tasks'[1] = tasks[3 - i]
<1>1. PICK s \in Seq(PlannedTask) : s = tasks
  OBVIOUS
<1>2. i \in DOMAIN s /\ DOMAIN s = 1..Len(s) /\ Len(s) \in Nat
  BY <1>1
<1>3. CASE rest = <<>>
  <2>1. PICK t \in Seq(PlannedTask) : t = RemoveAt(s, i)
    BY <1>1, OneLess
  <2>2. /\ Len(t) = Len(s) - 1 /\ (Len(s) <= 1 => t = <<>>)
        /\ \A j \in 1..(Len(s) - 1) : t[j] = IF j < i THEN s[j] ELSE s[j + 1]
    <3>1. /\ Len(t) = Len(s) - 1
          /\ \A j \in 1..(Len(s) - 1) : t[j] = IF j < i THEN s[j] ELSE s[j + 1]
      BY ONLY <1>2, <2>1, s \in Seq(PlannedTask), WhatIsLeft
    <3>2. Len(s) <= 1 => t = <<>>
      BY ONLY <1>2, <2>1, s \in Seq(PlannedTask), OneLess
    <3> QED
      BY <3>1, <3>2
  <2>3. ASSUME Len(s) = 2 PROVE Len(t) = 1 /\ t[1] = s[3 - i]
    <3>1. i \in 1..2 /\ t[1] = (IF 1 < i THEN s[1] ELSE s[2])
      BY <1>2, <2>2, <2>3
    <3> QED
      BY <2>2, <2>3, <3>1
  <2>4. tasks' = t
    BY <1>1, <1>3, <2>1 DEF Goes
  <2>5. Len(s) = 1 => i = 1
    BY <1>2
  <2>6. tasks' \in Seq(PlannedTask) /\ (Len(tasks) = 1 => tasks' = <<>>)
    BY <1>1, <2>2, <2>4
  <2>7. Len(tasks) = 2 => Len(tasks') = 1 /\ tasks'[1] = tasks[3 - i]
    BY <1>1, <2>3, <2>4
  <2> QED
    BY <1>1, <1>3, <2>5, <2>6, <2>7
<1>4. CASE rest # <<>>
  <2>1. PICK q \in PlannedTask : q = Task(tasks[i].of, rest, panel)
    BY <1>4 DEF PlannedTask, Task
  <2>2. tasks' = [s EXCEPT ![i] = q]
    BY <1>1, <1>4, <2>1 DEF Goes
  <2>3. /\ tasks' \in Seq(PlannedTask) /\ Len(tasks') = Len(s) /\ tasks'[i] = q
    BY <1>2, <2>2, OneChanged
  <2> QED
    BY <1>1, <1>2, <1>4, <2>1, <2>3
<1> QED
  BY <1>3, <1>4

\* Before the panel is opened for the first time.
LEMMA PanelStart == PanelInit => PanelInv
<1> SUFFICES ASSUME PanelInit PROVE PanelInv
  OBVIOUS
<1>1. tasks = <<>> /\ <<>> \in Seq(PlannedTask)
  BY NothingListed DEF PanelInit
<1>2. PanelTypeOK
  <2>1. {panel, overlapped} \subseteq BOOLEAN
    BY Zenon DEF PanelInit
  <2>2. closing \in Nat /\ edits \in [Playlist -> 0..MaxEdits]
    BY PanelAssumption DEF PanelInit
  <2>3. /\ {currentPlaylistId, lastPlaylistId} \subseteq Playlist \cup {NoPlaylist}
        /\ exists \subseteq Playlist /\ listed \subseteq Playlist /\ shown \in Tracks \cup {Nothing}
    BY DEF PanelInit
  <2> QED
    BY <1>1, <2>1, <2>2, <2>3, PlannedAreTasks DEF PanelTypeOK
<1>3. PanelInOrder
  BY DEF PanelInit, PanelInOrder
<1> QED
  BY <1>1, <1>2, <1>3 DEF PanelInv

\* A task begins, or the two of a selection.
LEMMA TaskBegins ==
  ASSUME PanelInv, NEW new, NEW fresh \in BOOLEAN, Begin(new, fresh),
         (\E t \in PlannedTask : new = <<t>>) \/ (\E t, u \in PlannedTask : new = <<t, u>>)
  PROVE  /\ tasks' \in Seq(PlannedTask) /\ overlapped' \in BOOLEAN
         /\ ~overlapped' => tasks = <<>> /\ tasks' = new /\ (~overlapped \/ fresh)
<1>1. /\ tasks' = tasks \o new
      /\ overlapped' = (tasks # <<>> \/ (overlapped /\ ~fresh))
  BY DEF Begin
<1>2. tasks \in Seq(PlannedTask) /\ new \in Seq(PlannedTask)
  <2>1. /\ \A t \in PlannedTask : <<t>> \in Seq(PlannedTask)
        /\ \A t, u \in PlannedTask : <<t, u>> \in Seq(PlannedTask)
    OBVIOUS
  <2> QED
    BY <2>1, Zenon DEF PanelInv
<1>3. overlapped' \in BOOLEAN
  BY <1>1, Zenon DEF PanelInv, PanelTypeOK
<1>4. tasks = <<>> => tasks \o new = new
  BY <1>2
<1>5. tasks' \in Seq(PlannedTask)
  BY <1>1, <1>2
<1>6. ~overlapped' => tasks = <<>> /\ (~overlapped \/ fresh)
  BY <1>1, Zenon
<1> QED
  BY <1>1, <1>3, <1>4, <1>5, <1>6, Zenon

\* The panel opens, with the selection to be restored.
LEMMA OpenPanelKeeps == ASSUME PanelInv, OpenPanel PROVE PanelInv'
<1> DEFINE t == Task(NoPlaylist, <<"lists", "restore">>, TRUE)
<1>1. t \in PlannedTask /\ t.calls = <<"lists", "restore">> /\ t.here = TRUE
  BY DEF PlannedTask, Task
<1>2. /\ ~panel /\ panel' = TRUE /\ listed' = {} /\ shown' = Nothing
      /\ Begin(<<t>>, currentPlaylistId = NoPlaylist)
      /\ UNCHANGED <<closing, currentPlaylistId, lastPlaylistId, exists, edits>>
  BY DEF OpenPanel
<1> HIDE DEF t
<1>3. PICK fresh \in BOOLEAN : fresh = (currentPlaylistId = NoPlaylist)
  OBVIOUS
<1>4. /\ tasks' \in Seq(PlannedTask) /\ overlapped' \in BOOLEAN
      /\ ~overlapped' => tasks = <<>> /\ tasks' = <<t>> /\ (~overlapped \/ fresh)
  BY <1>1, <1>2, <1>3, TaskBegins
<1>5. PanelTypeOK'
  BY <1>2, <1>4, PlannedAreTasks DEF PanelInv, PanelTypeOK
<1>6. ASSUME ~overlapped'
      PROVE  Len(tasks') = 1 /\ tasks'[1] = t /\ currentPlaylistId' = NoPlaylist
  BY <1>2, <1>3, <1>4, <1>6 DEF PanelInv, PanelInOrder
<1>7. PanelInOrder'
  BY <1>1, <1>2, <1>6 DEF PanelInOrder, Orderly, SoleTask
<1> QED
  BY <1>4, <1>5, <1>7 DEF PanelInv

\* The timeout of closePanel takes the panel away.
LEMMA CloseTimerKeeps == ASSUME PanelInv, CloseTimer PROVE PanelInv'
<1>1. /\ closing > 0 /\ closing' = closing - 1 /\ panel' = FALSE /\ currentPlaylistId' = NoPlaylist
      /\ listed' = {} /\ shown' = Nothing /\ UNCHANGED <<lastPlaylistId, exists, edits>>
      /\ tasks' = [i \in DOMAIN tasks |-> [tasks[i] EXCEPT !.here = FALSE]]
      /\ overlapped' = (overlapped \/ tasks # <<>>)
  BY DEF CloseTimer, Deselected
<1>2. tasks \in Seq(PlannedTask) /\ Len(tasks) \in Nat /\ DOMAIN tasks = 1..Len(tasks)
  BY DEF PanelInv
<1>3. \A i \in 1..Len(tasks) : [tasks[i] EXCEPT !.here = FALSE] \in PlannedTask
  <2> TAKE i \in 1..Len(tasks)
  <2>1. tasks[i] \in PlannedTask
    BY <1>2
  <2> QED
    BY <2>1 DEF PlannedTask
<1>4. tasks' \in Seq(PlannedTask)
  BY <1>1, <1>2, <1>3
<1>5. closing' \in Nat
  BY <1>1 DEF PanelInv, PanelTypeOK
<1>6. overlapped' \in BOOLEAN /\ panel' \in BOOLEAN
  BY <1>1, Zenon DEF PanelInv, PanelTypeOK
<1>7. PanelTypeOK'
  BY <1>1, <1>4, <1>5, <1>6, PlannedAreTasks DEF PanelInv, PanelTypeOK
<1>8. tasks = <<>> => tasks' = <<>>
  BY <1>1
<1>9. PanelInOrder'
  BY <1>1, <1>8 DEF PanelInOrder
<1> QED
  BY <1>4, <1>7, <1>9 DEF PanelInv

\* A playlist is selected; its tracks are asked for.
LEMMA SelectKeeps == ASSUME PanelInv, NEW p \in Playlist, SelectPlaylist(p) PROVE PanelInv'
<1> DEFINE t == Task(p, <<"lists">>, TRUE)
           u == Task(p, <<"tracks">>, TRUE)
<1>1. /\ t \in PlannedTask /\ t.calls = <<"lists">> /\ t.here = TRUE
      /\ u \in PlannedTask /\ u.calls = <<"tracks">> /\ u.here = TRUE /\ u.of = p
  BY DEF PlannedTask, Plans, Task
<1>2. /\ panel /\ currentPlaylistId' = p /\ lastPlaylistId' = p /\ Begin(<<t, u>>, TRUE)
      /\ UNCHANGED <<panel, closing, exists, edits, listed, shown>>
  BY DEF SelectPlaylist
<1> HIDE DEF t, u
<1>3. /\ tasks' \in Seq(PlannedTask) /\ overlapped' \in BOOLEAN
      /\ ~overlapped' => tasks' = <<t, u>>
  BY <1>1, <1>2, TaskBegins
<1>4. PanelTypeOK'
  BY <1>2, <1>3, PlannedAreTasks DEF PanelInv, PanelTypeOK
<1>5. p # NoPlaylist
  BY PanelAssumption
<1>6. ~overlapped' => Len(tasks') = 2 /\ tasks'[1] = t /\ tasks'[2] = u
  BY <1>3
<1>7. PanelInOrder'
  BY <1>1, <1>2, <1>5, <1>6 DEF PanelInOrder, Orderly, Selection
<1> QED
  BY <1>3, <1>4, <1>7 DEF PanelInv

\* A selection that is not stored is noted.
LEMMA UnstoredKeeps == ASSUME PanelInv, NEW p \in Playlist, SelectUnstored(p) PROVE PanelInv'
<1>1. /\ currentPlaylistId' = p /\ overlapped' = TRUE
      /\ UNCHANGED <<panel, closing, lastPlaylistId, exists, edits, listed, shown, tasks>>
  BY DEF SelectUnstored
<1>2. tasks' \in Seq(PlannedTask)
  BY <1>1 DEF PanelInv
<1>3. PanelTypeOK'
  BY <1>1, <1>2, PlannedAreTasks DEF PanelInv, PanelTypeOK
<1>4. PanelInOrder'
  BY <1>1 DEF PanelInOrder
<1> QED
  BY <1>2, <1>3, <1>4 DEF PanelInv

\* A task begins that renders only what it changes: all was well before it.
LEMMA OtherTaskBegins ==
  ASSUME PanelInv, panel, NEW t \in PlannedTask, t.here = TRUE, Begin(<<t>>, FALSE),
         UNCHANGED <<panel, closing, currentPlaylistId, lastPlaylistId, exists, edits, listed, shown>>,
         ListTrue /\ ShownTrue => SoleTask(t)
  PROVE  PanelInv'
<1>1. /\ tasks' \in Seq(PlannedTask) /\ overlapped' \in BOOLEAN
      /\ ~overlapped' => tasks = <<>> /\ tasks' = <<t>> /\ ~overlapped
  BY TaskBegins
<1>2. PanelTypeOK'
  BY <1>1, PlannedAreTasks DEF PanelInv, PanelTypeOK
<1>3. ASSUME ~overlapped' PROVE Len(tasks') = 1 /\ tasks'[1] = t /\ SoleTask(t)
  <2>1. tasks = <<>> /\ tasks' = <<t>> /\ Orderly
    BY <1>1, <1>3 DEF PanelInv, PanelInOrder
  <2>2. ListTrue /\ ShownTrue
    BY <2>1 DEF Orderly, Selection
  <2> QED
    BY <2>1, <2>2
<1>4. ~overlapped' => SoleTask(t)'
  BY <1>3 DEF SoleTask, ListTrue, ShownTrue
<1>5. PanelInOrder'
  BY <1>3, <1>4 DEF PanelInOrder, Orderly, SoleTask, ListTrue, ShownTrue
<1> QED
  BY <1>1, <1>2, <1>5 DEF PanelInv

\* A task that is under way: what it may be, and what else there is then.
LEMMA TaskAtHand ==
  ASSUME PanelInv, NEW i \in DOMAIN tasks
  PROVE  /\ \/ tasks[i].calls \in Plans /\ tasks[i].of \in Playlist
            \/ tasks[i].calls = <<"lists", "restore">> /\ tasks[i].of = NoPlaylist
         /\ ~overlapped => panel = TRUE /\ tasks[i].here = TRUE
         /\ ~overlapped => \/ Len(tasks) = 1 /\ i = 1 /\ SoleTask(tasks[i])
                           \/ Selection(tasks) /\ i = 1
                           \/ Selection(tasks) /\ i = 2
<1>1. PICK s \in Seq(PlannedTask) : s = tasks
  BY DEF PanelInv
<1>2. s[i] \in PlannedTask /\ Len(s) \in Nat /\ i \in 1..Len(s) /\ s # <<>>
  BY <1>1
<1>3. \/ s[i].calls \in Plans /\ s[i].of \in Playlist
      \/ s[i].calls = <<"lists", "restore">> /\ s[i].of = NoPlaylist
  BY <1>2 DEF PlannedTask
<1>4. s[i].here \in BOOLEAN
  BY <1>2 DEF PlannedTask
<1>5. ASSUME ~overlapped
      PROVE  /\ panel = TRUE /\ s[i].here = TRUE
             /\ \/ Len(s) = 1 /\ i = 1 /\ SoleTask(s[i])
                \/ Selection(s) /\ i = 1
                \/ Selection(s) /\ i = 2
  <2>1. panel = TRUE /\ Orderly
    BY <1>1, <1>2, <1>5 DEF PanelInv, PanelInOrder, PanelTypeOK
  <2>2. CASE Len(s) = 1
    <3>1. i = 1
      BY <1>2, <2>2
    <3>2. s[1].here /\ SoleTask(s[1])
      BY <1>1, <1>2, <2>1, <2>2 DEF Orderly, Selection
    <3> QED
      BY <1>4, <2>1, <2>2, <3>1, <3>2
  <2>3. CASE Selection(s)
    <3>1. i = 1 \/ i = 2
      BY <1>2, <2>3 DEF Selection
    <3> QED
      BY <1>4, <2>1, <2>3, <3>1 DEF Selection
  <2> QED
    BY <1>1, <1>2, <2>1, <2>2, <2>3 DEF Orderly
<1> QED
  BY <1>1, <1>3, <1>5

\* The list is rendered, and perhaps the last selection restored.
LEMMA ListsAnsweredKeeps ==
  ASSUME PanelInv, NEW i \in DOMAIN tasks, NEW ok \in BOOLEAN, ListsAnswered(i, ok)
  PROVE  PanelInv'
<1>1. PICK t : t = tasks[i]
  OBVIOUS
<1>2. /\ tasks \in Seq(PlannedTask) /\ panel \in BOOLEAN
      /\ {currentPlaylistId, lastPlaylistId} \subseteq Playlist \cup {NoPlaylist}
  BY DEF PanelInv, PanelTypeOK
<1>3. /\ Head(t.calls) = "lists"
      /\ listed' = IF ~t.here THEN listed ELSE IF ok THEN exists ELSE {}
      /\ overlapped' = (overlapped \/ ~ok)
      /\ UNCHANGED <<panel, closing, lastPlaylistId, exists, edits, shown>>
  BY <1>1 DEF ListsAnswered
<1>4. \/ t.calls \in {<<"lists">>, <<"lists", "tracks">>} /\ t.of \in Playlist
      \/ t.calls = <<"lists", "restore">> /\ t.of = NoPlaylist
  BY <1>1, <1>3, TaskAtHand, PlansGoOn
<1>5. overlapped' \in BOOLEAN /\ listed' \subseteq Playlist
  BY <1>3 DEF PanelInv, PanelTypeOK
<1>6. ASSUME ~overlapped'
      PROVE  /\ panel = TRUE /\ panel' = TRUE /\ ListTrue'
             /\ \/ Len(tasks) = 1 /\ i = 1 /\ SoleTask(t)
                \/ Selection(tasks) /\ i = 1
  <2>1. ~overlapped /\ ok
    BY <1>3, <1>6
  <2>2. ~(Selection(tasks) /\ i = 2)
    BY <1>1, <1>3 DEF Selection
  <2> QED
    BY <1>1, <1>3, <2>1, <2>2, TaskAtHand DEF ListTrue
<1>7. CASE t.calls = <<"lists", "restore">> /\ lastPlaylistId # NoPlaylist
           /\ currentPlaylistId = NoPlaylist
  <2>1. /\ currentPlaylistId' = lastPlaylistId /\ lastPlaylistId \in Playlist
        /\ tasks' = [tasks EXCEPT ![i] = Task(lastPlaylistId, <<"lists", "tracks">>, panel)]
    BY <1>1, <1>2, <1>7, PlansGoOn DEF ListsAnswered
  <2>2. PICK q \in PlannedTask : q = Task(lastPlaylistId, <<"lists", "tracks">>, panel)
    BY <1>2, <2>1 DEF PlannedTask, Plans, Task
  <2>3. q.of = lastPlaylistId /\ q.calls = <<"lists", "tracks">> /\ q.here = panel
    BY <2>2 DEF Task
  <2>4. tasks' \in Seq(PlannedTask) /\ Len(tasks') = Len(tasks) /\ tasks'[i] = q
    BY <1>2, <2>1, <2>2, OneChanged
  <2>5. ASSUME ~overlapped' PROVE Len(tasks') = 1 /\ tasks'[1] = q /\ q.here /\ panel'
    <3>1. ~Selection(tasks) \/ i # 1
      BY <1>1, <1>7 DEF Selection
    <3> QED
      BY <1>6, <2>3, <2>4, <2>5, <3>1
  <2>6. SoleTask(q)'
    BY <2>1, <2>3, PanelAssumption DEF SoleTask
  <2>7. PanelInOrder'
    BY <2>5, <2>6 DEF PanelInOrder, Orderly, SoleTask
  <2>8. PanelTypeOK'
    BY <1>2, <1>3, <1>5, <2>1, <2>4, PlannedAreTasks DEF PanelInv, PanelTypeOK
  <2> QED
    BY <2>4, <2>7, <2>8 DEF PanelInv
<1>8. CASE ~(t.calls = <<"lists", "restore">> /\ lastPlaylistId # NoPlaylist
             /\ currentPlaylistId = NoPlaylist)
  <2>1. PICK rest \in Plans \cup {<<>>} :
          rest = IF t.calls = <<"lists", "restore">> THEN <<>> ELSE Tail(t.calls)
    BY <1>4, PlansGoOn DEF Plans
  <2>2. currentPlaylistId' = currentPlaylistId /\ Goes(i, rest)
    <3>1. Tail(t.calls) = <<"restore">> <=> t.calls = <<"lists", "restore">>
      BY <1>4, PlansGoOn DEF Plans
    <3> QED
      BY <1>1, <1>8, <2>1, <3>1 DEF ListsAnswered
  <2>3. rest # <<>> => t.of \in Playlist /\ t.calls = <<"lists", "tracks">> /\ rest = <<"tracks">>
    BY <1>4, <2>1, PlanTails
  <2>4. /\ tasks' \in Seq(PlannedTask)
        /\ Len(tasks) = 1 /\ rest = <<>> => tasks' = <<>>
        /\ Len(tasks) = 1 /\ rest # <<>> =>
             Len(tasks') = 1 /\ tasks'[1] = Task(t.of, rest, panel)
        /\ Len(tasks) = 2 /\ rest = <<>> => Len(tasks') = 1 /\ tasks'[1] = tasks[3 - i]
    BY <1>1, <1>2, <2>2, <2>3, TaskGoes
  <2>5. ASSUME ~overlapped' PROVE Orderly'
    <3>1. CASE Len(tasks) = 1 /\ i = 1 /\ SoleTask(t)
      <4>1. CASE rest = <<>>
        <5>1. t.calls \in {<<"lists">>, <<"lists", "restore">>}
          <6>1. <<"tracks">> # <<>>
            OBVIOUS
          <6> QED
            BY <1>4, <2>1, <4>1, <6>1, PlanTails
        <5>2. ShownTrue
          BY <3>1, <5>1 DEF SoleTask, ShownTrue
        <5>3. ShownTrue'
          BY <1>3, <2>2, <5>2 DEF ShownTrue
        <5> QED
          BY <1>6, <2>4, <2>5, <3>1, <4>1, <5>3 DEF Orderly
      <4>2. CASE rest # <<>>
        <5>1. t.of = currentPlaylistId /\ t.of # NoPlaylist
          BY <2>3, <3>1, <4>2 DEF SoleTask
        <5>2. PICK q : q = Task(t.of, rest, panel)
          OBVIOUS
        <5>3. q.of = t.of /\ q.calls = <<"tracks">> /\ q.here = panel
          BY <2>3, <4>2, <5>2 DEF Task
        <5>4. SoleTask(q)'
          BY <1>6, <2>2, <2>5, <5>1, <5>3 DEF SoleTask
        <5>5. Len(tasks') = 1 /\ tasks'[1] = q
          BY <2>4, <3>1, <4>2, <5>2
        <5> QED
          BY <1>6, <2>5, <5>3, <5>4, <5>5 DEF Orderly
      <4> QED
        BY <4>1, <4>2
    <3>2. CASE Selection(tasks) /\ i = 1
      <4>1. rest = <<>> /\ Len(tasks) = 2
        BY <1>1, <2>1, <3>2, PlanTails DEF Selection
      <4>2. PICK q : q = tasks[2]
        OBVIOUS
      <4>3. /\ q.calls = <<"tracks">> /\ q.here /\ q.of = currentPlaylistId /\ q.of # NoPlaylist
            /\ Len(tasks') = 1 /\ tasks'[1] = q
        BY <2>4, <3>2, <4>1, <4>2 DEF Selection
      <4>4. SoleTask(q)'
        BY <1>6, <2>2, <2>5, <4>3 DEF SoleTask
      <4> QED
        BY <4>3, <4>4 DEF Orderly
    <3> QED
      BY <1>6, <2>5, <3>1, <3>2
  <2>6. PanelInOrder'
    BY <1>6, <2>5 DEF PanelInOrder
  <2>7. PanelTypeOK'
    BY <1>2, <1>3, <1>5, <2>2, <2>4, PlannedAreTasks DEF PanelInv, PanelTypeOK
  <2> QED
    BY <2>4, <2>6, <2>7 DEF PanelInv
<1> QED
  BY <1>7, <1>8

\* Another call of a task is answered: what a task that was alone leaves to do, and
\* what the other task of a selection has, is what may still be wrong.
LEMMA TaskAnsweredKeeps ==
  ASSUME PanelInv, NEW i \in DOMAIN tasks, NEW rest \in Plans \cup {<<>>}, Goes(i, rest),
         NEW q, q = IF rest = <<>> THEN tasks[3 - i] ELSE Task(tasks[i].of, rest, panel),
         rest # <<>> => tasks[i].of \in Playlist, UNCHANGED panel,
         ~overlapped' => ~overlapped,
         ~overlapped' /\ SoleTask(tasks[i]) =>
           IF rest = <<>> THEN ListTrue' /\ ShownTrue' ELSE SoleTask(q)',
         ~overlapped' /\ Selection(tasks) => rest = <<>> /\ SoleTask(q)'
  PROVE  tasks' \in Seq(PlannedTask) /\ PanelInOrder'
<1>1. PICK t : t = tasks[i]
  OBVIOUS
<1>2. tasks \in Seq(PlannedTask) /\ panel \in BOOLEAN
  BY DEF PanelInv, PanelTypeOK
<1>3. /\ tasks' \in Seq(PlannedTask)
      /\ Len(tasks) = 1 /\ rest = <<>> => tasks' = <<>>
      /\ Len(tasks) = 1 /\ rest # <<>> =>
           Len(tasks') = 1 /\ tasks'[1] = Task(t.of, rest, panel)
      /\ Len(tasks) = 2 /\ rest = <<>> => Len(tasks') = 1 /\ tasks'[1] = tasks[3 - i]
  BY <1>1, <1>2, TaskGoes
<1>4. ASSUME ~overlapped' PROVE panel' = TRUE /\ Orderly'
  <2>1. /\ panel = TRUE
        /\ \/ Len(tasks) = 1 /\ i = 1 /\ SoleTask(t)
           \/ Selection(tasks) /\ i = 1
           \/ Selection(tasks) /\ i = 2
    BY <1>1, <1>4, TaskAtHand
  <2>2. CASE Len(tasks) = 1 /\ SoleTask(t) /\ rest = <<>>
    BY <1>1, <1>3, <1>4, <2>1, <2>2 DEF Orderly
  <2>3. CASE Len(tasks) = 1 /\ SoleTask(t) /\ rest # <<>>
    <3>1. q = Task(t.of, rest, panel)
      BY <1>1, <2>3
    <3>2. q.here = TRUE /\ SoleTask(q)'
      BY <1>1, <1>4, <2>1, <2>3, <3>1 DEF Task
    <3>3. Len(tasks') = 1 /\ tasks'[1] = q
      BY <1>3, <2>3, <3>1
    <3> QED
      BY <2>1, <3>2, <3>3 DEF Orderly
  <2>4. CASE Selection(tasks)
    <3>1. rest = <<>> /\ q = tasks[3 - i]
      BY <1>4, <2>4
    <3>2. SoleTask(q)' /\ Len(tasks) = 2 /\ (i = 1 \/ i = 2)
      BY <1>2, <1>4, <2>4 DEF Selection
    <3>3. q.here
      BY <2>4, <3>1, <3>2 DEF Selection
    <3>4. Len(tasks') = 1 /\ tasks'[1] = q
      BY <1>3, <3>1, <3>2
    <3> QED
      BY <2>1, <3>2, <3>3, <3>4 DEF Orderly
  <2> QED
    BY <2>1, <2>2, <2>3, <2>4
<1>5. PanelInOrder'
  BY <1>4 DEF PanelInOrder
<1> QED
  BY <1>3, <1>5

\* The tracks are rendered.
LEMMA TracksAnsweredKeeps ==
  ASSUME PanelInv, NEW i \in DOMAIN tasks, NEW ok \in BOOLEAN, TracksAnswered(i, ok)
  PROVE  PanelInv'
<1>1. PICK t : t = tasks[i]
  OBVIOUS
<1>2. PICK rest : rest = Tail(t.calls)
  OBVIOUS
<1>3. /\ Head(t.calls) = "tracks" /\ Goes(i, rest)
      /\ shown' = IF ~t.here THEN shown ELSE IF ok THEN [of |-> t.of, edits |-> edits[t.of]] ELSE Nothing
      /\ overlapped' = (overlapped \/ ~ok)
      /\ UNCHANGED <<panel, closing, currentPlaylistId, lastPlaylistId, exists, edits, listed>>
  BY <1>1, <1>2 DEF TracksAnswered
<1>4. t.calls \in {<<"tracks">>, <<"tracks", "lists">>} /\ t.of \in Playlist
  BY <1>1, <1>3, TaskAtHand, PlansGoOn
<1>5. rest = IF t.calls = <<"tracks">> THEN <<>> ELSE <<"lists">>
  BY <1>2, <1>4, PlanTails
<1>6. rest \in Plans \cup {<<>>} /\ t.of # NoPlaylist /\ <<"lists">> # <<>>
  BY <1>4, <1>5, PanelAssumption DEF Plans
<1>7. overlapped' \in BOOLEAN /\ shown' \in Tracks \cup {Nothing}
  <2>1. [of |-> t.of, edits |-> edits[t.of]] \in Tracks
    BY <1>4 DEF PanelInv, PanelTypeOK, Tracks
  <2> QED
    BY <1>3, <2>1 DEF PanelInv, PanelTypeOK
<1>8. ~overlapped' => ~overlapped /\ ok /\ t.here
  BY <1>1, <1>3, TaskAtHand
<1>a. PICK q : q = IF rest = <<>> THEN tasks[3 - i] ELSE Task(t.of, rest, panel)
  OBVIOUS
<1>9. ASSUME ~overlapped', SoleTask(t)
      PROVE  IF rest = <<>> THEN ListTrue' /\ ShownTrue' ELSE SoleTask(q)'
  <2>1. t.of = currentPlaylistId /\ (t.calls = <<"tracks">> => ListTrue)
    BY <1>4, <1>9 DEF SoleTask
  <2>2. ShownTrue' /\ (t.calls = <<"tracks">> => ListTrue')
    BY <1>3, <1>6, <1>8, <1>9, <2>1 DEF ShownTrue, ListTrue
  <2>3. ASSUME rest # <<>> PROVE SoleTask(q)'
    <3>1. q.calls = <<"lists">>
      BY <1>5, <1>a, <2>3 DEF Task
    <3> QED
      BY <2>2, <3>1 DEF SoleTask
  <2> QED
    BY <1>5, <1>6, <2>2, <2>3
<1>10. ASSUME ~overlapped', Selection(tasks)
       PROVE  rest = <<>> /\ SoleTask(q)'
  <2>1. i = 2
    BY <1>1, <1>4, <1>8, <1>10, TaskAtHand DEF Selection
  <2>2. t.calls = <<"tracks">> /\ t.of = currentPlaylistId /\ tasks[1].calls = <<"lists">>
    BY <1>1, <1>10, <2>1 DEF Selection
  <2>3. ShownTrue'
    BY <1>3, <1>6, <1>8, <1>10, <2>2 DEF ShownTrue
  <2>4. q = tasks[1]
    BY <1>5, <1>a, <2>1, <2>2
  <2>5. SoleTask(q)'
    BY <2>2, <2>3, <2>4 DEF SoleTask
  <2> QED
    BY <1>5, <2>2, <2>5
<1>11. tasks' \in Seq(PlannedTask) /\ PanelInOrder'
  BY <1>1, <1>3, <1>4, <1>6, <1>8, <1>9, <1>10, <1>a, TaskAnsweredKeeps
<1>12. PanelTypeOK'
  BY <1>3, <1>7, <1>11, PlannedAreTasks DEF PanelInv, PanelTypeOK
<1> QED
  BY <1>11, <1>12 DEF PanelInv

\* A call that is neither of the list nor of tracks belongs to a task that is alone.
LEMMA NotOfASelection ==
  ASSUME PanelInv, NEW i \in DOMAIN tasks, Head(tasks[i].calls) \notin {"lists", "tracks"},
         ~overlapped
  PROVE  ~Selection(tasks)
<1>1. Head(<<"lists">>) = "lists" /\ Head(<<"tracks">>) = "tracks"
  OBVIOUS
<1> QED
  BY <1>1, TaskAtHand DEF Selection

\* After an edit the tracks are asked for again.
LEMMA EditedKeeps == ASSUME PanelInv, NEW i \in DOMAIN tasks, Edited(i) PROVE PanelInv'
<1>1. PICK t : t = tasks[i]
  OBVIOUS
<1>2. PICK rest : rest = Tail(t.calls)
  OBVIOUS
<1>3. /\ Head(t.calls) = "edit" /\ edits[t.of] < MaxEdits /\ Goes(i, rest)
      /\ edits' = [edits EXCEPT ![t.of] = @ + 1]
      /\ UNCHANGED <<panel, closing, currentPlaylistId, lastPlaylistId, exists, listed, shown,
                     overlapped>>
  BY <1>1, <1>2 DEF Edited
<1>4. t.calls \in {<<"edit", "tracks">>, <<"edit", "tracks", "lists">>} /\ t.of \in Playlist
  BY <1>1, <1>3, TaskAtHand, PlansGoOn
<1>5. rest \in {<<"tracks">>, <<"tracks", "lists">>}
  BY <1>2, <1>4, PlanTails
<1>6. rest \in Plans /\ rest # <<>>
  BY <1>5 DEF Plans
<1>7. edits' \in [Playlist -> 0..MaxEdits]
  <2>1. edits \in [Playlist -> 0..MaxEdits]
    BY DEF PanelInv, PanelTypeOK
  <2>2. edits[t.of] + 1 \in 0..MaxEdits
    BY <1>3, <1>4, <2>1, PanelAssumption
  <2> QED
    BY <1>3, <2>1, <2>2
<1>8. ~overlapped' => ~Selection(tasks)
  BY <1>1, <1>3, NotOfASelection
<1>a. PICK q : q = Task(t.of, rest, panel)
  OBVIOUS
<1>9. ASSUME SoleTask(t) PROVE SoleTask(q)'
  <2>1. ListTrue /\ t.of = currentPlaylistId /\ t.of # NoPlaylist
    BY <1>4, <1>9 DEF SoleTask
  <2>2. q.of = t.of /\ q.calls = rest
    BY <1>a DEF Task
  <2> QED
    BY <1>3, <1>5, <2>1, <2>2 DEF SoleTask, ListTrue
<1>10. tasks' \in Seq(PlannedTask) /\ PanelInOrder'
  BY <1>1, <1>3, <1>4, <1>6, <1>8, <1>9, <1>a, TaskAnsweredKeeps
<1>11. PanelTypeOK'
  BY <1>3, <1>7, <1>10, PlannedAreTasks DEF PanelInv, PanelTypeOK
<1> QED
  BY <1>10, <1>11 DEF PanelInv

\* After a creation the lists are asked for, with the new playlist selected.
LEMMA CreatedKeeps == ASSUME PanelInv, NEW i \in DOMAIN tasks, Created(i) PROVE PanelInv'
<1>1. PICK t : t = tasks[i]
  OBVIOUS
<1>2. PICK rest : rest = <<"lists">>
  OBVIOUS
<1>3. /\ Head(t.calls) = "create" /\ Goes(i, Tail(t.calls)) /\ exists' = exists \cup {t.of}
      /\ UNCHANGED <<panel, closing, currentPlaylistId, lastPlaylistId, edits, listed, shown,
                     overlapped>>
  BY <1>1 DEF Created
<1>4. t.calls = <<"create", "lists">> /\ t.of \in Playlist
  BY <1>1, <1>3, TaskAtHand, PlansGoOn
<1>5. rest \in Plans /\ rest # <<>> /\ Goes(i, rest)
  BY <1>2, <1>3, <1>4, PlanTails DEF Plans
<1>6. ~overlapped' => ~Selection(tasks)
  BY <1>1, <1>3, NotOfASelection
<1>a. PICK q : q = Task(t.of, rest, panel)
  OBVIOUS
<1>7. ASSUME SoleTask(t) PROVE SoleTask(q)'
  <2>1. ShownTrue
    BY <1>4, <1>7 DEF SoleTask
  <2>2. ShownTrue'
    BY <1>3, <2>1 DEF ShownTrue
  <2> QED
    BY <1>2, <1>a, <2>2 DEF SoleTask, Task
<1>8. tasks' \in Seq(PlannedTask) /\ PanelInOrder'
  BY <1>1, <1>3, <1>4, <1>5, <1>6, <1>7, <1>a, TaskAnsweredKeeps
<1>9. PanelTypeOK'
  BY <1>3, <1>4, <1>8, PlannedAreTasks DEF PanelInv, PanelTypeOK
<1> QED
  BY <1>8, <1>9 DEF PanelInv

\* If the playlist was the one selected, nothing is, and nothing is shown.
LEMMA DeletedKeeps == ASSUME PanelInv, NEW i \in DOMAIN tasks, Deleted(i) PROVE PanelInv'
<1>1. PICK t : t = tasks[i]
  OBVIOUS
<1>2. PICK rest : rest = <<"lists">>
  OBVIOUS
<1>3. /\ Head(t.calls) = "delete" /\ Goes(i, Tail(t.calls)) /\ exists' = exists \ {t.of}
      /\ IF currentPlaylistId = t.of
         THEN currentPlaylistId' = NoPlaylist /\ shown' = Nothing
         ELSE UNCHANGED <<currentPlaylistId, shown>>
      /\ UNCHANGED <<panel, closing, lastPlaylistId, edits, listed, overlapped>>
  BY <1>1 DEF Deleted
<1>4. t.calls = <<"delete", "lists">> /\ t.of \in Playlist
  BY <1>1, <1>3, TaskAtHand, PlansGoOn
<1>5. rest \in Plans /\ rest # <<>> /\ Goes(i, rest)
  BY <1>2, <1>3, <1>4, PlanTails DEF Plans
<1>6. ~overlapped' => ~Selection(tasks)
  BY <1>1, <1>3, NotOfASelection
<1>a. PICK q : q = Task(t.of, rest, panel)
  OBVIOUS
<1>7. ASSUME SoleTask(t) PROVE SoleTask(q)'
  <2>1. ShownTrue
    BY <1>4, <1>7 DEF SoleTask
  <2>2. ShownTrue'
    BY <1>3, <2>1 DEF ShownTrue
  <2> QED
    BY <1>2, <1>a, <2>2 DEF SoleTask, Task
<1>8. tasks' \in Seq(PlannedTask) /\ PanelInOrder'
  BY <1>1, <1>3, <1>4, <1>5, <1>6, <1>7, <1>a, TaskAnsweredKeeps
<1>9. currentPlaylistId' \in Playlist \cup {NoPlaylist} /\ shown' \in Tracks \cup {Nothing}
      /\ exists' \subseteq Playlist
  BY <1>3 DEF PanelInv, PanelTypeOK
<1>10. PanelTypeOK'
  BY <1>3, <1>8, <1>9, PlannedAreTasks DEF PanelInv, PanelTypeOK
<1> QED
  BY <1>8, <1>10 DEF PanelInv

\* A playlist is played, and the panel will close: nothing is left to render.
LEMMA PlayAnsweredKeeps == ASSUME PanelInv, NEW i \in DOMAIN tasks, PlayAnswered(i) PROVE PanelInv'
<1>1. PICK t : t = tasks[i]
  OBVIOUS
<1>2. /\ Head(t.calls) = "play" /\ Goes(i, <<>>) /\ ClosePanel
      /\ UNCHANGED <<panel, currentPlaylistId, lastPlaylistId, exists, edits, listed, shown,
                     overlapped>>
  BY <1>1 DEF PlayAnswered
<1>3. t.calls = <<"play">>
  BY <1>1, <1>2, TaskAtHand, PlansGoOn
<1>4. ~overlapped' => ~Selection(tasks)
  BY <1>1, <1>2, NotOfASelection
<1>5. SoleTask(t) => ListTrue' /\ ShownTrue'
  BY <1>2, <1>3 DEF SoleTask, ListTrue, ShownTrue
<1>6. PICK rest \in Plans \cup {<<>>} : rest = <<>>
  OBVIOUS
<1>a. PICK q : q = tasks[3 - i]
  OBVIOUS
<1>7. tasks' \in Seq(PlannedTask) /\ PanelInOrder'
  BY <1>1, <1>2, <1>4, <1>5, <1>6, <1>a, TaskAnsweredKeeps
<1>8. closing' \in Nat
  BY <1>2 DEF ClosePanel, PanelInv, PanelTypeOK
<1>9. PanelTypeOK'
  BY <1>2, <1>7, <1>8, PlannedAreTasks DEF PanelInv, PanelTypeOK
<1> QED
  BY <1>7, <1>9 DEF PanelInv

\* A call fails: what it was to show is missing, and history knows.
LEMMA CallFailsKeeps == ASSUME PanelInv, NEW i \in DOMAIN tasks, CallFails(i) PROVE PanelInv'
<1>1. /\ Goes(i, <<>>) /\ overlapped' = TRUE
      /\ UNCHANGED <<panel, closing, currentPlaylistId, lastPlaylistId, exists, edits, listed, shown>>
  BY DEF CallFails
<1>2. tasks \in Seq(PlannedTask) /\ panel \in BOOLEAN
  BY DEF PanelInv, PanelTypeOK
<1>3. tasks' \in Seq(PlannedTask)
  BY <1>1, <1>2, TaskGoes
<1>4. PanelTypeOK'
  BY <1>1, <1>3, PlannedAreTasks DEF PanelInv, PanelTypeOK
<1>5. PanelInOrder'
  BY <1>1 DEF PanelInOrder
<1> QED
  BY <1>3, <1>4, <1>5 DEF PanelInv

\* Every click, timer and answer keeps the panel's invariant.
LEMMA PanelStep == PanelInv /\ [PanelNext]_panelVars => PanelInv'
<1> SUFFICES ASSUME PanelInv, [PanelNext]_panelVars PROVE PanelInv'
  OBVIOUS
<1>1. CASE RequestClose \/ PlayShown
  <2>1. /\ ClosePanel
        /\ UNCHANGED <<panel, currentPlaylistId, lastPlaylistId, exists, edits, listed, shown, tasks,
                       overlapped>>
    BY <1>1 DEF RequestClose, PlayShown
  <2>2. closing' \in Nat
    BY <2>1 DEF ClosePanel, PanelInv, PanelTypeOK
  <2>3. PanelTypeOK' /\ tasks' \in Seq(PlannedTask)
    BY <2>1, <2>2 DEF PanelInv, PanelTypeOK
  <2>4. PanelInOrder'
    BY <2>1 DEF PanelInv, PanelInOrder, Orderly, Selection, SoleTask, ListTrue, ShownTrue
  <2> QED
    BY <2>3, <2>4 DEF PanelInv
<1>2. CASE UNCHANGED panelVars
  BY <1>2 DEF panelVars, PanelInv, PanelTypeOK, PanelInOrder, Orderly, Selection, SoleTask,
     ListTrue, ShownTrue
<1>3. ASSUME NEW p \in Playlist, PlayPlaylist(p) \/ DeletePlaylist(p) \/ NewPlaylist(p)
      PROVE  PanelInv'
  <2>1. PICK calls \in {<<"play">>, <<"delete", "lists">>, <<"create", "lists">>} :
          /\ panel /\ Begin(<<Task(p, calls, TRUE)>>, FALSE)
          /\ UNCHANGED <<panel, closing, currentPlaylistId, lastPlaylistId, exists, edits, listed,
                         shown>>
    BY <1>3 DEF PlayPlaylist, DeletePlaylist, NewPlaylist
  <2>2. PICK t \in PlannedTask : t = Task(p, calls, TRUE)
    BY DEF PlannedTask, Plans, Task
  <2>3. t.calls = calls /\ t.here = TRUE
    BY <2>2 DEF Task
  <2>4. ListTrue /\ ShownTrue => SoleTask(t)
    BY <2>1, <2>3 DEF SoleTask
  <2> QED
    BY <2>1, <2>2, <2>3, <2>4, OtherTaskBegins
<1>4. ASSUME NEW calls \in {<<"edit", "tracks", "lists">>, <<"edit", "tracks">>}, EditTracks(calls)
      PROVE  PanelInv'
  <2>1. /\ panel /\ shown # Nothing /\ Begin(<<Task(shown.of, calls, TRUE)>>, FALSE)
        /\ UNCHANGED <<panel, closing, currentPlaylistId, lastPlaylistId, exists, edits, listed,
                       shown>>
    BY <1>4 DEF EditTracks
  <2>2. shown.of \in Playlist /\ shown.of # NoPlaylist
    BY <2>1, PanelAssumption DEF PanelInv, PanelTypeOK, Tracks
  <2>3. PICK t \in PlannedTask : t = Task(shown.of, calls, TRUE)
    BY <2>2 DEF PlannedTask, Plans, Task
  <2>4. t.calls = calls /\ t.here = TRUE /\ t.of = shown.of
    BY <2>3 DEF Task
  <2>5. ASSUME ListTrue, ShownTrue PROVE SoleTask(t)
    <3>1. shown.of = currentPlaylistId
      BY <2>1, <2>5 DEF ShownTrue
    <3> QED
      BY <2>2, <2>4, <2>5, <3>1 DEF SoleTask
  <2> QED
    BY <2>1, <2>3, <2>4, <2>5, OtherTaskBegins
<1> QED
  BY <1>1, <1>2, <1>3, <1>4, OpenPanelKeeps, CloseTimerKeeps, SelectKeeps, UnstoredKeeps,
     ListsAnsweredKeeps, TracksAnsweredKeeps, EditedKeeps, CreatedKeeps, DeletedKeeps,
     PlayAnsweredKeeps, CallFailsKeeps
     DEF PanelNext

\* PlaylistPanel.ts: for any number of playlists, edits and operations under way,
\* unless operations overlapped or failed, the panel that waits for nothing shows
\* the playlists and the selected one's tracks as the backend has them.
THEOREM PlaylistsShown == PanelSpec => [](PanelTypeOK /\ PanelShowsBackend)
<1>1. PanelInv => PanelTypeOK /\ PanelShowsBackend
  BY NothingListed
     DEF PanelInv, PanelInOrder, Orderly, Selection, ListTrue, ShownTrue, PanelShowsBackend
<1> QED
  BY <1>1, PanelStart, PanelStep, PTL DEF PanelSpec
=============================================================================
