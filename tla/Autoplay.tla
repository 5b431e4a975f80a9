------------------------------ MODULE Autoplay ------------------------------
(***************************************************************************)
(* The infinite playlist of the desktop player (src/src/features/autoplay/ *)
(* AutoplayFeature.ts): when few autoplay tracks are left ahead, a refill  *)
(* fetches recommendations, takes a batch of them, looks up their videos,  *)
(* probes the streaming protocol once, and appends the batch to the        *)
(* player's playlist.                                                      *)
(*                                                                         *)
(* JavaScript runs one handler at a time; a refill is a sequence of        *)
(* handlers with an await between them, so the player, the user and the    *)
(* switch act in between. The player (Webamp) is outside: of its playlist  *)
(* the model keeps the tracks that autoplay appended (list) and which of   *)
(* them plays (pos). The order of the recommendations is left open, and    *)
(* writing the small entries of localStorage succeeds.                     *)
(***************************************************************************)
EXTENDS Integers, SequencesExt

CONSTANTS Track,          \* recommended tracks, named by artist and title
          ArtistOf,       \* the artist of each track
          QueueSize,      \* QUEUE_SIZE
          LowWatermark,   \* LOW_WATERMARK
          PoolMin,        \* POOL_MIN
          MaxPerArtist,   \* MAX_PER_ARTIST
          RapidStarts,    \* starts within 10 s that trip the circuit breaker
          MaxCopies,      \* bound on the copies of one seed in the pool
          MaxBlocked      \* bound on the tracks blocked at once

NoTrack == "none"

ASSUME AutoplayAssumption ==
  /\ IsFiniteSet(Track) /\ NoTrack \notin Track
  /\ ArtistOf \in [Track -> {ArtistOf[x] : x \in Track}]
  /\ {QueueSize, LowWatermark, PoolMin, MaxPerArtist, RapidStarts, MaxCopies,
      MaxBlocked} \subseteq Nat \ {0}

VARIABLES
  enabled,        \* the switch
  refill,         \* the await at which the running refill is; "no" if filling is false
  batch,          \* the seeds the refill took
  selfTestDone, circuitBroken,
  recentStarts,   \* number of TRACK_STARTs the breaker remembers
  currentTrack,
  queuedAhead,    \* estimate of the autoplay tracks still ahead
  seen,           \* tracks not to be recommended again
  pool,           \* copies of each seed not yet used
  appended,       \* mirror of the tracks still ahead
  list, pos,      \* the player: autoplay's entries in order, the one playing (0: another)
  blocked,        \* tracks for which isBlocked holds
  storage,        \* what survives the program: the switch and the mirror
  lateBatches     \* history: batches appended since autoplay was switched off or broke

autoplayVars == <<enabled, refill, batch, selfTestDone, circuitBroken, recentStarts,
                  currentTrack, queuedAhead, seen, pool, appended, list, pos, blocked,
                  storage, lateBatches>>

AutoplayTypeOK ==
  /\ {enabled, selfTestDone, circuitBroken} \subseteq BOOLEAN
  /\ refill \in {"no", "pool", "mix", "resolve", "selftest"}
  /\ batch \in SUBSET Track /\ seen \in SUBSET Track /\ blocked \in SUBSET Track
  /\ recentStarts \in 0..(RapidStarts + 1)
  /\ currentTrack \in Track \cup {NoTrack}
  /\ queuedAhead \in Nat /\ lateBatches \in Nat
  /\ pool \in [Track -> 0..MaxCopies]
  /\ appended \in Seq(Track) /\ list \in Seq(Track) /\ pos \in 0..Len(list)
  /\ storage \in [autoplay : BOOLEAN, queue : Seq(Track)]

AutoplayInit ==
  /\ enabled = FALSE /\ refill = "no" /\ batch = {}
  /\ selfTestDone = FALSE /\ circuitBroken = FALSE /\ recentStarts = 0
  /\ currentTrack = NoTrack /\ queuedAhead = 0
  /\ seen = {} /\ pool = [x \in Track |-> 0]
  /\ appended = <<>> /\ list = <<>> /\ pos = 0 /\ blocked = {}
  /\ storage = [autoplay |-> FALSE, queue |-> <<>>]
  /\ lateBatches = 0

-----------------------------------------------------------------------------
\* faulty variant: a refill that looks at neither the switch nor the breaker.
RefillAnyway(on, broken, ahead) ==
  refill' = IF refill = "no" /\ ahead < LowWatermark THEN "pool" ELSE refill

\* maybeRefill up to its first await, called with the switch, the breaker and
\* the estimate as the calling handler leaves them.
MaybeRefill(on, broken, ahead) ==
  refill' = IF on /\ refill = "no" /\ ~broken /\ ahead < LowWatermark THEN "pool" ELSE refill

\* ensurePool adds the recommendations; of an answer only those not seen count.
Added(answer) == [x \in Track |-> IF x \in answer /\ pool[x] < MaxCopies
                                  THEN pool[x] + 1 ELSE pool[x]]

OfArtist(S, a) == {x \in S : ArtistOf[x] = a}

\* takeBatch: walking through the pool takes usable seeds until there are n of
\* them, skipping an artist who has his share; any order of the pool may occur.
Batches(p, n) ==
  LET usable == {x \in Track \ (seen \cup blocked) : p[x] > 0}
      Full(S, a) == Cardinality(OfArtist(S, a)) >= MaxPerArtist
  IN  {S \in SUBSET usable :
         /\ Cardinality(S) <= n
         /\ \A x \in S : Cardinality(OfArtist(S, ArtistOf[x])) <= MaxPerArtist
         /\ Cardinality(S) = n \/ \A x \in usable \ S : Full(S, ArtistOf[x])}

\* faulty variant: the batch is not remembered.
Forgotten(S) == seen

Remembered(S) == seen \cup S

TakeBatch(p) ==
  \E S \in Batches(p, QueueSize - queuedAhead) :
    /\ batch' = S
    /\ seen' = Remembered(S)
    /\ pool' = [x \in Track |-> IF x \in S THEN p[x] - 1 ELSE p[x]]
    /\ refill' = IF S = {} THEN "no" ELSE "resolve"

\* The recommender answered, or the pool was full enough not to ask it. The
\* YouTube mix of the current track is asked for if the pool is still short.
PoolAnswered ==
  /\ refill = "pool"
  /\ \E answer \in SUBSET (Track \ seen) :
       LET full == SumFunction(pool) >= PoolMin
           p == IF full THEN pool ELSE Added(answer)
       IN  /\ full => answer = {}
           /\ IF SumFunction(p) < PoolMin /\ currentTrack # NoTrack
              THEN /\ refill' = "mix" /\ pool' = p
                   /\ UNCHANGED <<batch, seen>>
              ELSE TakeBatch(p)
  /\ UNCHANGED <<enabled, selfTestDone, circuitBroken, recentStarts, currentTrack, queuedAhead,
                 appended, list, pos, blocked, storage, lateBatches>>

MixAnswered ==
  /\ refill = "mix"
  /\ \E answer \in SUBSET (Track \ seen) : TakeBatch(Added(answer))
  /\ UNCHANGED <<enabled, selfTestDone, circuitBroken, recentStarts, currentTrack, queuedAhead,
                 appended, list, pos, blocked, storage, lateBatches>>

\* appendAll and the rest of maybeRefill; neither looks at the switch again.
AppendAll(S) ==
  LET entries == SetToSeq(S)
  IN  /\ list' = list \o entries
      /\ appended' = appended \o entries
      /\ storage' = [storage EXCEPT !.queue = appended']
      /\ queuedAhead' = queuedAhead + Cardinality(S)
      /\ refill' = "no" /\ batch' = {}
      /\ lateBatches' = IF enabled /\ ~circuitBroken THEN 0 ELSE lateBatches + 1

\* resolveVideoIds answered: some seeds have a video. The first batch waits for
\* the probe of the streaming protocol.
Resolved ==
  /\ refill = "resolve"
  /\ \E found \in SUBSET batch :
       \/ /\ found = {}
          /\ refill' = "no" /\ batch' = {}
          /\ UNCHANGED <<list, appended, storage, queuedAhead, lateBatches, selfTestDone>>
       \/ /\ found # {} /\ ~selfTestDone
          /\ selfTestDone' = TRUE
          /\ refill' = "selftest" /\ batch' = found
          /\ UNCHANGED <<list, appended, storage, queuedAhead, lateBatches>>
       \/ /\ found # {} /\ selfTestDone
          /\ AppendAll(found)
          /\ UNCHANGED selfTestDone
  /\ UNCHANGED <<enabled, circuitBroken, recentStarts, currentTrack, seen, pool, pos, blocked>>

\* selfTestPlayback answered.
Probed ==
  /\ refill = "selftest"
  /\ \/ AppendAll(batch) /\ UNCHANGED circuitBroken
     \/ /\ circuitBroken' = TRUE
        /\ refill' = "no" /\ batch' = {}
        /\ UNCHANGED <<list, appended, storage, queuedAhead, lateBatches>>
  /\ UNCHANGED <<enabled, selfTestDone, recentStarts, currentTrack, seen, pool, pos, blocked>>

-----------------------------------------------------------------------------
\* The breaker forgets the starts that are 10 s old, counts this one, and trips
\* when tracks fly by; otherwise the start may begin a refill.
Breaker(ahead) ==
  \E kept \in 0..Min({recentStarts, RapidStarts}) :
    /\ recentStarts' = kept + 1
    /\ IF kept + 1 > RapidStarts /\ ~circuitBroken
       THEN circuitBroken' = TRUE /\ UNCHANGED refill
       ELSE MaybeRefill(enabled, circuitBroken, ahead) /\ UNCHANGED circuitBroken

\* faulty variant: the mirror keeps the entry that plays now.
KeepMirror == appended

ShiftMirror == IF appended = <<>> THEN <<>> ELSE Tail(appended)

\* TRACK_START of an entry with autoplay's URL.
AutoplayTrackStarts(x) ==
  /\ currentTrack' = x
  /\ seen' = seen \cup {x}
  /\ queuedAhead' = Max({0, queuedAhead - 1})
  /\ appended' = ShiftMirror
  /\ storage' = [storage EXCEPT !.queue = appended']
  /\ Breaker(queuedAhead')
  /\ UNCHANGED <<enabled, batch, selfTestDone, pool, blocked, lateBatches>>

\* TRACK_START of any other entry: the queue is taken to have been replaced.
OtherTrackStarts(x) ==
  /\ currentTrack' = x
  /\ seen' = seen \cup {x}
  /\ queuedAhead' = 0
  /\ appended' = <<>>
  /\ storage' = [storage EXCEPT !.queue = <<>>]
  /\ Breaker(0)
  /\ UNCHANGED <<enabled, batch, selfTestDone, pool, blocked, lateBatches>>

\* The player goes on to the next entry or the user jumps to one of them.
PlayEntry(k) ==
  /\ pos' = k /\ UNCHANGED list
  /\ AutoplayTrackStarts(list[k])

\* The user plays a track of his own, which replaces the playlist or not.
PlayOther(x, replaces) ==
  /\ pos' = 0
  /\ list' = IF replaces THEN <<>> ELSE list
  /\ OtherTrackStarts(x)

\* PLAYBACK_CHANGE to STOPPED.
PlaybackStops ==
  /\ MaybeRefill(enabled, circuitBroken, queuedAhead)
  /\ UNCHANGED <<enabled, batch, selfTestDone, circuitBroken, recentStarts, currentTrack,
                 queuedAhead, seen, pool, appended, list, pos, blocked, storage, lateBatches>>

\* toggle and setEnabled.
SetEnabled(on) ==
  /\ on # enabled
  /\ enabled' = on
  /\ storage' = [storage EXCEPT !.autoplay = on]
  /\ IF on THEN /\ circuitBroken' = FALSE /\ recentStarts' = 0 /\ lateBatches' = 0
                /\ MaybeRefill(TRUE, FALSE, queuedAhead)
           ELSE UNCHANGED <<circuitBroken, recentStarts, lateBatches, refill>>
  /\ UNCHANGED <<batch, selfTestDone, currentTrack, queuedAhead, seen, pool, appended, list,
                 pos, blocked>>

\* The verdict on the track that plays changes (module AutoplayFeedback).
Rate ==
  /\ currentTrack # NoTrack
  /\ blocked' = SymDiff(blocked, {currentTrack})
  /\ Cardinality(blocked') <= MaxBlocked   \* bound
  /\ UNCHANGED <<enabled, refill, batch, selfTestDone, circuitBroken, recentStarts,
                 currentTrack, queuedAhead, seen, pool, appended, list, pos, storage, lateBatches>>

\* The program ends and starts again: init and restoreSavedQueue.
RestartPlayer ==
  /\ enabled' = storage.autoplay
  /\ list' = storage.queue /\ pos' = 0
  /\ appended' = storage.queue
  /\ queuedAhead' = Len(storage.queue)
  /\ seen' = ToSet(storage.queue)
  /\ refill' = "no" /\ batch' = {}
  /\ selfTestDone' = FALSE /\ circuitBroken' = FALSE /\ recentStarts' = 0
  /\ currentTrack' = NoTrack /\ pool' = [x \in Track |-> 0]
  /\ lateBatches' = 0
  /\ UNCHANGED <<blocked, storage>>

AutoplayNext ==
  \/ PoolAnswered \/ MixAnswered \/ Resolved \/ Probed
  \/ \E k \in 1..Len(list) : PlayEntry(k)
  \/ \E x \in Track, replaces \in {FALSE, list # <<>>} : PlayOther(x, replaces)
  \/ PlaybackStops
  \/ \E on \in BOOLEAN : SetEnabled(on)
  \/ Rate
  \/ RestartPlayer

AutoplaySpec == AutoplayInit /\ [][AutoplayNext]_autoplayVars

-----------------------------------------------------------------------------
\* The account of the queue (AutoplayFeature.ts:102, "Target number of similar
\* tracks to keep queued ahead"): whatever overlaps a refill, the estimate is the
\* length of the mirror, the mirror is what a restart would restore, and the
\* estimate together with the batch under way stays within QUEUE_SIZE.
QueueAccount ==
  /\ queuedAhead = Len(appended)
  /\ storage.queue = appended
  /\ queuedAhead + Cardinality(batch) <= QueueSize

\* AutoplayFeature.ts:92, "avoids recommending the same track twice": since the
\* program started, no track was appended twice, and none can be, although the
\* pool holds several copies of it and a restart restores a queue.
QueuedOnce ==
  /\ IsInjective(list)
  /\ ToSet(list) \cap batch = {}
  /\ ToSet(list) \cup batch \subseteq seen

\* AutoplayFeature.ts:82, "stops autoplay refilling": nothing looks at the switch
\* or the breaker after an await, so a refill that was under way still appends
\* its batch, but after autoplay went off or broke only that one.
OneLateBatch == lateBatches <= 1
=============================================================================
