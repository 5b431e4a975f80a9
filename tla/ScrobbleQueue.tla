--------------------------- MODULE ScrobbleQueue ----------------------------
(***************************************************************************)
(* The backend's side of scrobbling (src/src-tauri/src/scrobble.rs): the   *)
(* commands that send a listen to a service, the table scrobble_queue that *)
(* keeps those that failed, and the command that flushes it.               *)
(*                                                                         *)
(* Commands run concurrently; each awaits the service's answer without the *)
(* lock of the database. The service may take a listen although its answer *)
(* gets lost. What the database refuses is ignored, as the code ignores    *)
(* it. A listen stands for one track played once and one service, which    *)
(* the frontend asks to send once (module Listening).                      *)
(***************************************************************************)
EXTENDS Integers, FiniteSetsExt

CONSTANTS Listen,
          MaxAttempts,   \* attempts < 10 of the flush
          FlushLimit,    \* LIMIT 50
          MaxFlushes     \* bound on the flushes that run at once

ASSUME ScrobbleQueueAssumption ==
  IsFiniteSet(Listen) /\ {MaxAttempts, FlushLimit, MaxFlushes} \subseteq Nat \ {0}

VARIABLES
  queued,      \* the pending rows of scrobble_queue
  lastId,      \* the greatest id so far (AUTOINCREMENT: none is used again)
  command,     \* what became of the command that sends each listen
  flushing,    \* the rows each flush still has to send, as it read them
  flushTook,   \* whether the service took the listen of the first of them
  delivered,   \* how often the service took each listen (counted up to 2)
  doubtful     \* history: listens that were taken without the queue learning of
               \* it, or that two flushes sent at once

queueVars == <<queued, lastId, command, flushing, flushTook, delivered, doubtful>>
Flushes == 1..MaxFlushes

ScrobbleQueueTypeOK ==
  /\ lastId \in 0..Cardinality(Listen)
  /\ queued \subseteq [id : 1..lastId, of : Listen, attempts : 0..(MaxAttempts + MaxFlushes)]
  /\ command \in [Listen -> {"no", "sending", "taken", "done", "queued", "lost"}]
  /\ flushing \in [Flushes -> SUBSET [id : 1..lastId, of : Listen]]
  /\ flushTook \in [Flushes -> BOOLEAN]
  /\ delivered \in [Listen -> 0..2] /\ doubtful \subseteq Listen

ScrobbleQueueInit ==
  /\ queued = {} /\ lastId = 0 /\ command = [l \in Listen |-> "no"]
  /\ flushing = [f \in Flushes |-> {}] /\ flushTook = [f \in Flushes |-> FALSE]
  /\ delivered = [l \in Listen |-> 0] /\ doubtful = {}

Becomes(l, c) == command' = [command EXCEPT ![l] = c]
Taken(l) == delivered' = [delivered EXCEPT ![l] = IF @ < 2 THEN @ + 1 ELSE 2]
InQueue(l) == \E r \in queued : r.of = l
InFlush(l, f) == \E r \in flushing[f] : r.of = l

\* lastfm_scrobble or listenbrainz_scrobble up to the request; without an account
\* they return before it, and queue nothing.
SubmitListen(l) ==
  /\ command[l] = "no"
  /\ Becomes(l, "sending") \/ Becomes(l, "lost")
  /\ UNCHANGED <<queued, lastId, flushing, flushTook, delivered, doubtful>>

ServiceTakes(l) ==
  /\ command[l] = "sending" /\ Becomes(l, "taken") /\ Taken(l)
  /\ UNCHANGED <<queued, lastId, flushing, flushTook, doubtful>>

SubmitSucceeds(l) ==
  /\ command[l] = "taken" /\ Becomes(l, "done")
  /\ UNCHANGED <<queued, lastId, flushing, flushTook, delivered, doubtful>>

\* The service answers with an error, or nothing arrives: queue_add.
SubmitFails(l) ==
  /\ command[l] \in {"sending", "taken"}
  /\ \/ /\ Becomes(l, "queued") /\ lastId' = lastId + 1
        /\ queued' = queued \cup {[id |-> lastId', of |-> l, attempts |-> 0]}
     \/ Becomes(l, "lost") /\ UNCHANGED <<queued, lastId>>   \* no row could be inserted
  /\ doubtful' = IF command[l] = "taken" THEN doubtful \cup {l} ELSE doubtful
  /\ UNCHANGED <<flushing, flushTook, delivered>>

\* The rows a flush reads: those tried less than MaxAttempts times, ORDER BY id
\* LIMIT FlushLimit.
Retryable == {r \in queued : r.attempts < MaxAttempts}
Batch == {r \in Retryable : Cardinality({q \in Retryable : q.id < r.id}) < FlushLimit}

StartFlush(f) ==
  /\ flushing[f] = {} /\ Batch # {}
  /\ flushing' = [flushing EXCEPT ![f] = {[id |-> r.id, of |-> r.of] : r \in Batch}]
  /\ doubtful' = doubtful \cup {l \in Listen : InFlush(l, f)' /\ \E g \in Flushes : InFlush(l, g)}
  /\ UNCHANGED <<queued, lastId, command, flushTook, delivered>>

\* The row it is at.
Current(f) == CHOOSE r \in flushing[f] : \A q \in flushing[f] : r.id <= q.id

FlushedListenTaken(f) ==
  /\ flushing[f] # {} /\ ~flushTook[f]
  /\ flushTook' = [flushTook EXCEPT ![f] = TRUE]
  /\ Taken(Current(f).of)
  /\ UNCHANGED <<queued, lastId, command, flushing, doubtful>>

\* faulty variant: a row is deleted whether or not its listen was sent.
DeletedAnyway(i, ok) == {r \in queued : r.id # i}

\* The rows after the one with the id i was sent, or was not.
RowsAfter(i, ok) ==
  IF ok THEN {r \in queued : r.id # i}
        ELSE {IF r.id = i THEN [r EXCEPT !.attempts = @ + 1] ELSE r : r \in queued}

\* The answer for this row: it goes, or counts one more attempt; the flush goes on
\* with the next one.
FlushAnswered(f, ok) ==
  /\ flushing[f] # {} /\ (ok => flushTook[f])
  /\ queued' = RowsAfter(Current(f).id, ok) \/ queued' = queued
  /\ doubtful' = IF flushTook[f] /\ (~ok \/ queued' = queued) THEN doubtful \cup {Current(f).of}
                 ELSE doubtful
  /\ flushing' = [flushing EXCEPT ![f] = @ \ {Current(f)}]
  /\ flushTook' = [flushTook EXCEPT ![f] = FALSE]
  /\ UNCHANGED <<lastId, command, delivered>>

\* The program ends, whatever was under way, and starts again.
RestartBackend ==
  /\ command' = [l \in Listen |-> IF command[l] \in {"sending", "taken"} THEN "lost" ELSE command[l]]
  /\ doubtful' = doubtful \cup {Current(f).of : f \in {g \in Flushes : flushTook[g]}}
  /\ flushing' = [f \in Flushes |-> {}] /\ flushTook' = [f \in Flushes |-> FALSE]
  /\ UNCHANGED <<queued, lastId, delivered>>

ScrobbleQueueNext ==
  \/ \E l \in Listen : SubmitListen(l) \/ ServiceTakes(l) \/ SubmitSucceeds(l) \/ SubmitFails(l)
  \/ \E f \in Flushes : \/ StartFlush(f) \/ FlushedListenTaken(f)
                        \/ \E ok \in BOOLEAN : FlushAnswered(f, ok)
  \/ RestartBackend

ScrobbleQueueSpec == ScrobbleQueueInit /\ [][ScrobbleQueueNext]_queueVars

-----------------------------------------------------------------------------
\* A listen that was queued stays until the service has taken it.
NoneVanishes == \A l \in Listen : command[l] = "queued" => InQueue(l) \/ delivered[l] > 0

\* Unless an answer got lost, the program ended between answer and deletion, or
\* two flushes had read the same row, the service is told of a listen once.
NoneTwice == \A l \in Listen \ doubtful : delivered[l] <= 1

\* scrobble.rs, the queue "for retry": flushes that overlap, fail and are cut
\* short lose no queued listen, and repeat one only where nobody can know better.
QueueDelivers == NoneVanishes /\ NoneTwice
=============================================================================
