--------------------------- MODULE PlaylistPanel ----------------------------
(***************************************************************************)
(* The playlists panel (src/src/playlists/PlaylistPanel.ts): the list of   *)
(* playlists, the tracks of the selected one, and the operations on both,  *)
(* each of which calls the backend and then renders again what it changed. *)
(*                                                                         *)
(* An operation is a task: the backend calls it still has to make, one     *)
(* after the other; tasks overlap when the user does not wait. The content *)
(* of a playlist is known by the number of edits made to it.               *)
(***************************************************************************)
EXTENDS Integers, SequencesExt

CONSTANTS Playlist,   \* ids of playlists
          MaxEdits,   \* bound on the edits of one playlist
          MaxTasks    \* bound on the tasks under way

NoPlaylist == "none"

ASSUME PanelAssumption ==
  NoPlaylist \notin Playlist /\ MaxEdits \in Nat \ {0} /\ MaxTasks \in Nat \ {0}

VARIABLES
  panel,          \* is the panel on the page?
  closing,        \* calls of closePanel whose timer has not fired
  currentPlaylistId,
  lastPlaylistId, \* goamp_last_playlist_id in localStorage
  exists, edits,  \* the backend: the playlists and how often each was edited
  listed,         \* the playlists in the list
  shown,          \* the tracks in the panel: of which playlist, after how many edits
  tasks,
  overlapped      \* history: a task began, or the panel closed, while another ran; or one
                  \* failed, or a selection was not stored

panelVars == <<panel, closing, currentPlaylistId, lastPlaylistId, exists, edits, listed, shown,
               tasks, overlapped>>

Tracks == [of : Playlist, edits : 0..MaxEdits]
Nothing == [of |-> NoPlaylist, edits |-> 0]
Calls == {"edit", "delete", "create", "lists", "tracks", "restore", "play"}

PanelTypeOK ==
  /\ {panel, overlapped} \subseteq BOOLEAN /\ closing \in Nat
  /\ {currentPlaylistId, lastPlaylistId} \subseteq Playlist \cup {NoPlaylist}
  /\ exists \subseteq Playlist /\ listed \subseteq Playlist
  /\ edits \in [Playlist -> 0..MaxEdits]
  /\ shown \in Tracks \cup {Nothing}
  /\ tasks \in Seq([of : Playlist \cup {NoPlaylist}, calls : Seq(Calls), here : BOOLEAN])

PanelInit ==
  /\ panel = FALSE /\ closing = 0
  /\ currentPlaylistId = NoPlaylist /\ lastPlaylistId = NoPlaylist
  /\ exists \in SUBSET Playlist /\ edits = [p \in Playlist |-> 0]
  /\ listed = {} /\ shown = Nothing
  /\ tasks = <<>> /\ overlapped = FALSE

\* A task begins; a task that begins while nothing else runs sets things right
\* again if it renders everything (fresh).
Begin(new, fresh) ==
  /\ Len(tasks) + Len(new) <= MaxTasks   \* bound
  /\ tasks' = tasks \o new
  /\ overlapped' = (tasks # <<>> \/ (overlapped /\ ~fresh))

\* here: the element that the call under way will fill is on the page.
Task(p, calls, here) == [of |-> p, calls |-> calls, here |-> here]

ClosePanel == IF panel THEN closing' = closing + 1 ELSE UNCHANGED closing

\* openPanel: the list, then perhaps the playlist selected last - unless one is
\* selected already, by a task that outlived the panel: its tracks are not shown.
OpenPanel ==
  /\ ~panel
  /\ panel' = TRUE /\ listed' = {} /\ shown' = Nothing
  /\ Begin(<<Task(NoPlaylist, <<"lists", "restore">>, TRUE)>>, currentPlaylistId = NoPlaylist)
  /\ UNCHANGED <<closing, currentPlaylistId, lastPlaylistId, exists, edits>>

RequestClose ==
  /\ panel /\ closing < MaxTasks   \* bound
  /\ ClosePanel
  /\ UNCHANGED <<panel, currentPlaylistId, lastPlaylistId, exists, edits, listed, shown, tasks,
                 overlapped>>

\* faulty variant: the panel goes and its playlist stays selected.
StaySelected == currentPlaylistId

Deselected == NoPlaylist

\* What calls under way will render goes into elements that are no longer there.
CloseTimer ==
  /\ closing > 0
  /\ closing' = closing - 1
  /\ panel' = FALSE /\ currentPlaylistId' = Deselected
  /\ listed' = {} /\ shown' = Nothing
  /\ tasks' = [i \in DOMAIN tasks |-> [tasks[i] EXCEPT !.here = FALSE]]
  /\ overlapped' = (overlapped \/ tasks # <<>>)
  /\ UNCHANGED <<lastPlaylistId, exists, edits>>

\* A row of the list is clicked.
SelectPlaylist(p) ==
  /\ panel /\ p \in listed
  /\ currentPlaylistId' = p /\ lastPlaylistId' = p
  /\ Begin(<<Task(p, <<"lists">>, TRUE), Task(p, <<"tracks">>, TRUE)>>, TRUE)
  /\ UNCHANGED <<panel, closing, exists, edits, listed, shown>>

\* ... the store has no room for the selection: nothing is rendered.
SelectUnstored(p) ==
  /\ panel /\ p \in listed
  /\ currentPlaylistId' = p /\ overlapped' = TRUE
  /\ UNCHANGED <<panel, closing, lastPlaylistId, exists, edits, listed, shown, tasks>>

\* A row is double-clicked, or the button that deletes it is clicked.
PlayPlaylist(p) ==
  /\ panel /\ p \in listed
  /\ Begin(<<Task(p, <<"play">>, TRUE)>>, FALSE)
  /\ UNCHANGED <<panel, closing, currentPlaylistId, lastPlaylistId, exists, edits, listed, shown>>

DeletePlaylist(p) ==
  /\ panel /\ p \in listed
  /\ Begin(<<Task(p, <<"delete", "lists">>, TRUE)>>, FALSE)
  /\ UNCHANGED <<panel, closing, currentPlaylistId, lastPlaylistId, exists, edits, listed, shown>>

NewPlaylist(p) ==
  /\ panel /\ p \notin exists
  /\ Begin(<<Task(p, <<"create", "lists">>, TRUE)>>, FALSE)
  /\ UNCHANGED <<panel, closing, currentPlaylistId, lastPlaylistId, exists, edits, listed, shown>>

\* The buttons above and in the tracks shown: add the track that plays, add the
\* whole queue (its calls count as one edit), remove a track, rename one (which
\* leaves the list). Whether a playlist is empty is left out.
EditTracks(calls) ==
  /\ panel /\ shown # Nothing
  /\ Begin(<<Task(shown.of, calls, TRUE)>>, FALSE)
  /\ UNCHANGED <<panel, closing, currentPlaylistId, lastPlaylistId, exists, edits, listed, shown>>

\* A track shown, or "Play all": the player takes it and the panel closes.
PlayShown ==
  /\ panel /\ shown # Nothing /\ closing < MaxTasks   \* bound
  /\ ClosePanel
  /\ UNCHANGED <<panel, currentPlaylistId, lastPlaylistId, exists, edits, listed, shown, tasks,
                 overlapped>>

-----------------------------------------------------------------------------
Goes(i, calls) ==
  tasks' = IF calls = <<>> THEN RemoveAt(tasks, i) ELSE [tasks EXCEPT ![i] = Task(@.of, calls, panel)]

\* renderPlaylists: the element is filled, or shows an error; openPanel then
\* restores the last selection unless there is one by now.
ListsAnswered(i, ok) ==
  LET rest == Tail(tasks[i].calls)
      restores == rest = <<"restore">> /\ lastPlaylistId # NoPlaylist
                  /\ currentPlaylistId = NoPlaylist
  IN  /\ Head(tasks[i].calls) = "lists"
      /\ listed' = IF ~tasks[i].here THEN listed ELSE IF ok THEN exists ELSE {}
      /\ currentPlaylistId' = IF restores THEN lastPlaylistId ELSE currentPlaylistId
      /\ IF restores
         THEN tasks' = [tasks EXCEPT ![i] = Task(lastPlaylistId, <<"lists", "tracks">>, panel)]
         ELSE Goes(i, IF rest = <<"restore">> THEN <<>> ELSE rest)
      /\ overlapped' = (overlapped \/ ~ok)
      /\ UNCHANGED <<panel, closing, lastPlaylistId, exists, edits, shown>>

\* renderTracks.
TracksAnswered(i, ok) ==
  LET now == [of |-> tasks[i].of, edits |-> edits[tasks[i].of]]
  IN  /\ Head(tasks[i].calls) = "tracks"
      /\ shown' = IF ~tasks[i].here THEN shown ELSE IF ok THEN now ELSE Nothing
      /\ Goes(i, Tail(tasks[i].calls))
      /\ overlapped' = (overlapped \/ ~ok)
      /\ UNCHANGED <<panel, closing, currentPlaylistId, lastPlaylistId, exists, edits, listed>>

Edited(i) ==
  /\ Head(tasks[i].calls) = "edit"
  /\ tasks[i].of \in exists /\ edits[tasks[i].of] < MaxEdits   \* bound
  /\ edits' = [edits EXCEPT ![tasks[i].of] = @ + 1]
  /\ Goes(i, Tail(tasks[i].calls))
  /\ UNCHANGED <<panel, closing, currentPlaylistId, lastPlaylistId, exists, listed, shown,
                 overlapped>>

Created(i) ==
  /\ Head(tasks[i].calls) = "create"
  /\ exists' = exists \cup {tasks[i].of}
  /\ Goes(i, Tail(tasks[i].calls))
  /\ UNCHANGED <<panel, closing, currentPlaylistId, lastPlaylistId, edits, listed, shown,
                 overlapped>>

\* The playlist is gone; if it is the one selected, so are its tracks.
Deleted(i) ==
  LET p == tasks[i].of
  IN  /\ Head(tasks[i].calls) = "delete"
      /\ exists' = exists \ {p}
      /\ IF currentPlaylistId = p
         THEN currentPlaylistId' = NoPlaylist /\ shown' = Nothing
         ELSE UNCHANGED <<currentPlaylistId, shown>>
      /\ Goes(i, Tail(tasks[i].calls))
      /\ UNCHANGED <<panel, closing, lastPlaylistId, edits, listed, overlapped>>

PlayAnswered(i) ==
  /\ Head(tasks[i].calls) = "play" /\ closing < MaxTasks   \* bound
  /\ ClosePanel
  /\ Goes(i, <<>>)
  /\ UNCHANGED <<panel, currentPlaylistId, lastPlaylistId, exists, edits, listed, shown,
                 overlapped>>

\* A call that changes something, or gets tracks to play, fails: the task ends there.
CallFails(i) ==
  /\ Head(tasks[i].calls) \notin {"lists", "tracks"}
  /\ Goes(i, <<>>)
  /\ overlapped' = TRUE
  /\ UNCHANGED <<panel, closing, currentPlaylistId, lastPlaylistId, exists, edits, listed, shown>>

PanelNext ==
  \/ OpenPanel \/ RequestClose \/ CloseTimer \/ PlayShown
  \/ \E p \in Playlist : \/ SelectPlaylist(p) \/ SelectUnstored(p) \/ PlayPlaylist(p)
                         \/ DeletePlaylist(p) \/ NewPlaylist(p)
  \/ \E calls \in {<<"edit", "tracks", "lists">>, <<"edit", "tracks">>} : EditTracks(calls)
  \/ \E i \in DOMAIN tasks : \/ \E ok \in BOOLEAN : ListsAnswered(i, ok) \/ TracksAnswered(i, ok)
                             \/ Edited(i) \/ Created(i) \/ Deleted(i) \/ PlayAnswered(i) \/ CallFails(i)

PanelSpec == PanelInit /\ [][PanelNext]_panelVars

-----------------------------------------------------------------------------
\* PlaylistPanel.ts: unless operations overlapped or failed, whenever the panel
\* has nothing more to wait for it shows the backend's playlists and the selected
\* one's tracks as they are - after selections, edits, deletions, closing and
\* opening again, and after the last selection was restored.
PanelShowsBackend ==
  panel /\ closing = 0 /\ tasks = <<>> /\ ~overlapped =>
    /\ listed = exists
    /\ shown = IF currentPlaylistId = NoPlaylist THEN Nothing
               ELSE [of |-> currentPlaylistId, edits |-> edits[currentPlaylistId]]
=============================================================================
