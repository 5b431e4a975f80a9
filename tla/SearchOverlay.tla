--------------------------- MODULE SearchOverlay ----------------------------
(***************************************************************************)
(* The search overlay (src/src/youtube/SearchOverlay.ts): searching a      *)
(* source or importing an album, paging through the results, the results   *)
(* kept in localStorage for the next time the overlay opens, and playing,  *)
(* queueing, filing or saving one of them.                                 *)
(*                                                                         *)
(* Several requests may be under way: neither a new search nor another     *)
(* source nor closing the overlay cancels one, and each is applied when it *)
(* is answered. A write to localStorage may throw; what the handler had    *)
(* done by then stays. A list of results is known by what was asked and the*)
(* number of pages it fills; which row is shown is left out.               *)
(***************************************************************************)
EXTENDS Integers, SequencesExt

CONSTANTS Query,        \* what the user may type: words, or the URL of an album
          Album,        \* those that isPlaylistUrl takes for an album
          MaxPages,     \* bound on the pages a search may have
          MaxAsked      \* bound on the requests and downloads under way

NoQuery == "none"
Source == {"youtube", "soundcloud"}

ASSUME SearchAssumption ==
  /\ Album \subseteq Query /\ NoQuery \notin Query
  /\ MaxPages \in Nat \ {0} /\ MaxAsked \in Nat \ {0}

VARIABLES
  overlay,        \* is the overlay on the page?
  closeTimers,    \* calls of closeOverlay whose timer has not fired
  allResults, currentQuery, currentSource,
  lastQuery, lastResults, lastSource,   \* their copies in localStorage
  page,           \* page that the pagination shows as active (0: no pagination)
  asked,          \* requests under way
  downloads,      \* downloads under way, by what they are for
  queueAll,       \* tracks of an album still to be queued
  disturbed       \* history: the search for the query shown failed, was cut off or not
                  \* stored, or the last answer taken was to an earlier query

searchVars == <<overlay, closeTimers, allResults, currentQuery, currentSource, lastQuery,
                lastResults, lastSource, page, asked, downloads, queueAll, disturbed>>
resultVars == <<allResults, currentQuery, currentSource, lastQuery, lastResults, lastSource,
                page, asked, disturbed>>
overlayVars == <<overlay, closeTimers>>
playVars == <<downloads, queueAll>>

Results == [of : Query \cup {NoQuery}, pages : 0..MaxPages]
NoResults == [of |-> NoQuery, pages |-> 0]
\* here: the overlay that asked is still on the page.
Request == [kind : {"search", "import", "more"}, of : Query \cup {NoQuery}, pages : 1..MaxPages,
            here : BOOLEAN]
Purpose == {"play", "keep"}   \* to play it; to queue, file or save it

SearchTypeOK ==
  /\ overlay \in BOOLEAN /\ closeTimers \in Nat
  /\ {allResults, lastResults} \subseteq Results
  /\ {currentQuery, lastQuery} \subseteq Query \cup {NoQuery}
  /\ {currentSource, lastSource} \subseteq Source
  /\ page \in 0..MaxPages
  /\ asked \in Seq(Request) /\ downloads \subseteq Purpose
  /\ queueAll \in Nat /\ disturbed \in BOOLEAN

SearchInit ==
  /\ overlay = FALSE /\ closeTimers = 0
  /\ allResults = NoResults /\ currentQuery = NoQuery /\ lastResults = NoResults
  /\ currentSource = "youtube" /\ lastSource = "youtube"   \* the default is not stored
  /\ lastQuery = NoQuery
  /\ page = 0 /\ asked = <<>> /\ downloads = {} /\ queueAll = 0
  /\ disturbed = FALSE

\* showPage and updatePagination: an empty list has no controls (lists that do not
\* fill their last page are left out).
PageShown(r, p) == IF r.pages = 0 THEN 0 ELSE p

\* closeOverlay: the overlay goes when the timer fires.
Close == IF overlay THEN closeTimers' = closeTimers + 1 ELSE UNCHANGED closeTimers

\* faulty variant: the results come back without the query they answer.
RestoreResults ==
  IF lastResults.pages > 0
  THEN allResults' = lastResults /\ page' = PageShown(lastResults, 1) /\ UNCHANGED currentQuery
  ELSE UNCHANGED <<currentQuery, allResults, page>>

Restore ==
  IF lastQuery = NoQuery
  THEN UNCHANGED <<currentQuery, allResults, page>>
  ELSE /\ currentQuery' = lastQuery
       /\ IF lastResults.pages > 0
          THEN allResults' = lastResults /\ page' = PageShown(lastResults, 1)
          ELSE UNCHANGED <<allResults, page>>

\* openOverlay: the last source, query and results come back.
OpenOverlay ==
  /\ ~overlay
  /\ overlay' = TRUE
  /\ currentSource' = lastSource
  /\ Restore
  /\ UNCHANGED <<closeTimers, lastQuery, lastResults, lastSource, asked, disturbed, playVars>>

CloseOverlay ==
  /\ overlay /\ closeTimers < MaxAsked   \* bound
  /\ Close
  /\ UNCHANGED <<overlay, resultVars, playVars>>

\* The timer removes the overlay that is there by now.
CloseTimerFires ==
  /\ closeTimers > 0
  /\ closeTimers' = closeTimers - 1
  /\ overlay' = FALSE
  /\ page' = 0
  /\ asked' = [i \in DOMAIN asked |-> [asked[i] EXCEPT !.here = FALSE]]
  /\ UNCHANGED <<allResults, currentQuery, currentSource, lastQuery, lastResults, lastSource,
                 disturbed, playVars>>

\* A tab is clicked. When its name cannot be stored, the handler stops there.
SelectSource(s) ==
  /\ overlay /\ s # currentSource
  /\ currentSource' = s
  /\ \/ lastSource' = s /\ allResults' = NoResults /\ page' = 0
     \/ UNCHANGED <<lastSource, allResults, page>>   \* setItem throws
  /\ UNCHANGED <<currentQuery, lastQuery, lastResults, asked, disturbed, overlayVars, playVars>>

\* doSearch and doImport up to their await. When the query cannot be stored, the
\* search does not begin, but further pages would be asked with it.
Search(q) ==
  /\ overlay /\ Len(asked) < MaxAsked   \* bound
  /\ currentQuery' = q
  /\ \/ /\ lastQuery' = q /\ allResults' = NoResults
        /\ asked' = Append(asked, [kind |-> IF q \in Album THEN "import" ELSE "search",
                                   of |-> q, pages |-> 1, here |-> TRUE])
        /\ disturbed' = FALSE
     \/ /\ disturbed' = TRUE   \* setItem throws
        /\ UNCHANGED <<lastQuery, allResults, asked>>
  /\ UNCHANGED <<currentSource, lastResults, lastSource, page, overlayVars, playVars>>

\* A page button is clicked: a page that is loaded is shown.
ShowPage(p) ==
  /\ overlay /\ page # 0 /\ p <= allResults.pages
  /\ page' = p
  /\ UNCHANGED <<allResults, currentQuery, currentSource, lastQuery, lastResults, lastSource,
                 asked, disturbed, overlayVars, playVars>>

\* The next button is clicked and ensureResultsForPage has to ask for more.
LoadMore ==
  /\ overlay /\ page # 0 /\ page < MaxPages
  /\ allResults.pages < page + 1
  /\ Len(asked) < MaxAsked   \* bound
  /\ asked' = Append(asked, [kind |-> "more", of |-> currentQuery, pages |-> page + 1,
                             here |-> TRUE])
  /\ UNCHANGED <<allResults, currentQuery, currentSource, lastQuery, lastResults, lastSource,
                 page, disturbed, overlayVars, playVars>>

\* The results become the list and are then kept. When they cannot be, the list has
\* them already, but they are not shown. The controls that are on the page go; the
\* new ones stand next to the list that was shown when the question was asked.
TakeResults(found, p, here, kept) ==
  /\ allResults' = found
  /\ IF kept THEN lastResults' = found /\ page' = IF here THEN PageShown(found, p) ELSE 0
             ELSE UNCHANGED <<lastResults, page>>   \* setItem throws

\* More results are taken only if they are more.
Answered(i) ==
  \E n \in 0..asked[i].pages, kept \in BOOLEAN :
    LET found == [of |-> IF n = 0 THEN NoQuery ELSE asked[i].of, pages |-> n]
    IN  /\ asked' = RemoveAt(asked, i)
        /\ IF asked[i].kind # "more" \/ n > allResults.pages
           THEN /\ TakeResults(found, asked[i].pages, asked[i].here, kept)
                /\ disturbed' = ~(kept /\ asked[i].of = currentQuery /\ asked[i].of = lastQuery)
           ELSE UNCHANGED <<allResults, lastResults, page, disturbed>>
        /\ UNCHANGED <<currentQuery, currentSource, lastQuery, lastSource, overlayVars, playVars>>

Failed(i) ==
  /\ asked' = RemoveAt(asked, i)
  /\ disturbed' = (disturbed \/ (asked[i].kind # "more" /\ asked[i].of = currentQuery))
  /\ UNCHANGED <<allResults, currentQuery, currentSource, lastQuery, lastResults, lastSource,
                 page, overlayVars, playVars>>

\* A row is clicked, or an item of its context menu is chosen.
Download(d) ==
  /\ overlay /\ allResults.pages > 0 /\ d \notin downloads
  /\ downloads' = downloads \cup {d}
  /\ UNCHANGED <<queueAll, resultVars, overlayVars>>

\* The audio is there, or not. What was to be played closes the overlay.
Downloaded(d) ==
  /\ d \in downloads
  /\ downloads' = downloads \ {d}
  /\ \/ closeTimers < MaxAsked /\ IF d = "play" THEN Close ELSE UNCHANGED closeTimers
     \/ UNCHANGED closeTimers   \* it failed
  /\ UNCHANGED <<overlay, queueAll, resultVars>>

\* "Queue all" of an album: one track after the other.
QueueAll ==
  /\ overlay /\ allResults.of \in Album /\ queueAll = 0
  /\ queueAll' = allResults.pages
  /\ UNCHANGED <<downloads, resultVars, overlayVars>>

QueueNext ==
  /\ queueAll > 0
  /\ queueAll' = queueAll - 1
  /\ UNCHANGED <<downloads, resultVars, overlayVars>>

\* The program starts again with what localStorage holds.
RestartSearch ==
  /\ overlay' = FALSE /\ closeTimers' = 0
  /\ allResults' = NoResults /\ currentQuery' = NoQuery /\ page' = 0
  /\ currentSource' = "youtube"
  /\ asked' = <<>> /\ downloads' = {} /\ queueAll' = 0
  /\ disturbed' = (disturbed \/ \E i \in DOMAIN asked : asked[i].kind # "more")
  /\ UNCHANGED <<lastQuery, lastResults, lastSource>>

SearchNext ==
  \/ OpenOverlay \/ CloseOverlay \/ CloseTimerFires
  \/ \E s \in Source : SelectSource(s)
  \/ \E q \in Query : Search(q)
  \/ \E p \in 1..MaxPages : ShowPage(p)
  \/ LoadMore
  \/ \E i \in DOMAIN asked : Answered(i) \/ Failed(i)
  \/ \E d \in Purpose : Download(d) \/ Downloaded(d)
  \/ QueueAll \/ QueueNext
  \/ RestartSearch

SearchSpec == SearchInit /\ [][SearchNext]_searchVars

-----------------------------------------------------------------------------
\* SearchOverlay.ts:114, "restore for pagination": however many searches and
\* further pages overlapped, and whatever was closed, opened and restarted in
\* between, once everything is answered the list belongs to the query that further
\* pages are asked with. Excused is what the code does get wrong: an answer to an
\* earlier query that comes last, a last search that fails, is cut off by the end of
\* the program or cannot be stored.
ListAnswersQuery ==
  ~disturbed /\ asked = <<>> /\ allResults.pages > 0 => allResults.of = currentQuery
=============================================================================
