--------------------------- MODULE Features_proofs --------------------------
(***************************************************************************)
(* Proofs about the features that play on their own account: autoplay, for *)
(* any tracks, artists and limits; the user's feedback, for any number of  *)
(* songs and any period of the prompt; and scrobbling, with what the       *)
(* player reports of its tracks (Listening), what the backend's queue      *)
(* makes of the listens that no service took at once (ScrobbleQueue), and  *)
(* the connections to the services (ScrobbleSettings).                     *)
(*                                                                         *)
(* Late batches: after one no refill is under way and none begins before   *)
(* autoplay is switched on again (LateInv).                                *)
(*                                                                         *)
(* Queue (QueueInv): a batch is cut to the room there is when it is taken, *)
(* and the estimate does not grow before it is appended. What is in the    *)
(* queue, its mirror or a batch has been seen, and a batch is taken from   *)
(* what has not.                                                           *)
(*                                                                         *)
(* Feedback (FeedbackInv): a song that is rated has the one verdict that   *)
(* the history has, so giving it another replaces exactly that one; the    *)
(* histories are restarted from what was saved.                            *)
(*                                                                         *)
(* Scrobble queue (QInv): a row goes only when a flush has seen the        *)
(* service take its listen (TookOK), and unless a listen is doubtful, one  *)
(* flush at most has read its row, and a listen that was taken and still   *)
(* has one is the one this flush is at (OnceOK).                           *)
(***************************************************************************)
EXTENDS Autoplay, AutoplayFeedback, Listening, ScrobbleQueue, ScrobbleSettings, TaskLists,
        WellFoundedInduction

\* After the late batch no refill is under way, and none begins before autoplay
\* is switched on again, which starts the count anew.
LateInv ==
  /\ lateBatches \in {0, 1}
  /\ lateBatches = 1 => refill = "no" /\ (~enabled \/ circuitBroken)

\* The handlers that may begin a refill do so only with autoplay on and whole.
LEMMA RefillNeedsSwitch ==
  ASSUME LateInv, NEW ahead, MaybeRefill(enabled, circuitBroken, ahead),
         UNCHANGED <<enabled, circuitBroken, lateBatches>>
  PROVE  LateInv'
BY DEF LateInv, MaybeRefill

\* The circuit breaker of the TRACK_START handler.
LEMMA BreakerKeepsLate ==
  ASSUME LateInv, NEW ahead, Breaker(ahead), UNCHANGED <<enabled, lateBatches>>
  PROVE  LateInv'
<1>1. CASE circuitBroken' = TRUE /\ UNCHANGED refill
  BY <1>1 DEF LateInv
<1>2. CASE MaybeRefill(enabled, circuitBroken, ahead) /\ UNCHANGED circuitBroken
  BY <1>2, RefillNeedsSwitch
<1> QED
  BY <1>1, <1>2 DEF Breaker

\* Appending ends the refill that was under way, so it is the only late one.
LEMMA AppendKeepsLate ==
  ASSUME LateInv, NEW S, AppendAll(S), refill # "no", UNCHANGED <<enabled, circuitBroken>>
  PROVE  LateInv'
<1>1. refill' = "no" /\ lateBatches = 0
  BY DEF LateInv, AppendAll
<1>2. lateBatches' = IF enabled /\ ~circuitBroken THEN 0 ELSE 1
  BY <1>1 DEF AppendAll
<1> QED
  BY <1>1, <1>2 DEF LateInv

\* So do the handlers that end or continue it without appending.
LEMMA RefillGoesOn ==
  ASSUME LateInv, refill # "no", UNCHANGED lateBatches
  PROVE  LateInv'
BY DEF LateInv

\* At the start no refill is under way.
LEMMA LateInit == AutoplayInit => LateInv
BY DEF AutoplayInit, LateInv

\* Every handler keeps it.
LEMMA LateNext == LateInv /\ [AutoplayNext]_autoplayVars => LateInv'
<1> SUFFICES ASSUME LateInv, [AutoplayNext]_autoplayVars
             PROVE  LateInv'
  OBVIOUS
<1>1. CASE PoolAnswered
  BY <1>1, RefillGoesOn DEF PoolAnswered
<1>2. CASE MixAnswered
  BY <1>2, RefillGoesOn DEF MixAnswered
<1>3. CASE Resolved
  <2>1. refill # "no" /\ UNCHANGED <<enabled, circuitBroken>>
    BY <1>3 DEF Resolved
  <2>2. UNCHANGED lateBatches \/ \E S : AppendAll(S)
    BY <1>3 DEF Resolved
  <2> QED
    BY <2>1, <2>2, RefillGoesOn, AppendKeepsLate
<1>4. CASE Probed
  <2>1. refill # "no" /\ enabled' = enabled
    BY <1>4 DEF Probed
  <2>2. UNCHANGED lateBatches \/ (AppendAll(batch) /\ UNCHANGED circuitBroken)
    BY <1>4 DEF Probed
  <2> QED
    BY <2>1, <2>2, RefillGoesOn, AppendKeepsLate
<1>5. ASSUME NEW k \in 1..Len(list), PlayEntry(k)
      PROVE  LateInv'
  BY <1>5, BreakerKeepsLate DEF PlayEntry, AutoplayTrackStarts
<1>6. ASSUME NEW x \in Track, NEW replaces \in BOOLEAN, PlayOther(x, replaces)
      PROVE  LateInv'
  BY <1>6, BreakerKeepsLate DEF PlayOther, OtherTrackStarts
<1>7. CASE PlaybackStops
  BY <1>7, RefillNeedsSwitch DEF PlaybackStops
<1>8. ASSUME NEW on \in BOOLEAN, SetEnabled(on)
      PROVE  LateInv'
  <2>1. CASE on
    <3>1. lateBatches' = 0
      BY <1>8, <2>1 DEF SetEnabled
    <3> QED
      BY <3>1 DEF LateInv
  <2>2. CASE ~on
    BY <1>8, <2>2 DEF SetEnabled, LateInv
  <2> QED
    BY <2>1, <2>2
<1>9. CASE Rate
  BY <1>9 DEF Rate, LateInv
<1>10. CASE RestartPlayer
  BY <1>10 DEF RestartPlayer, LateInv
<1>11. CASE UNCHANGED autoplayVars
  BY <1>11 DEF autoplayVars, LateInv
<1> QED
  BY <1>1, <1>2, <1>3, <1>4, <1>5, <1>6, <1>7, <1>8, <1>9, <1>10, <1>11 DEF AutoplayNext

\* AutoplayFeature.ts: for any tracks and limits, once autoplay is switched off
\* or its breaker tripped, at most the one refill under way still appends.
THEOREM OnlyOneLateBatch == AutoplaySpec => []OneLateBatch
<1>1. LateInv => OneLateBatch
  BY DEF LateInv, OneLateBatch
<1> QED
  BY LateInit, LateNext, <1>1, PTL DEF AutoplaySpec

-----------------------------------------------------------------------------
\* A sequence of tracks without repetitions.
Distinct(s) == s \in Seq(Track) /\ IsInjective(s)

\* A set as a sequence: as long as the set is large, without repetitions.
LEMMA SetToSeqDistinct ==
  ASSUME NEW S \in SUBSET Track
  PROVE  /\ Distinct(SetToSeq(S)) /\ ToSet(SetToSeq(S)) \subseteq S
         /\ IsFiniteSet(S) /\ Cardinality(S) \in Nat /\ Len(SetToSeq(S)) = Cardinality(S)
<1>1. IsFiniteSet(S)
  BY AutoplayAssumption, FS_Subset
<1> QED
  BY <1>1, SetListed DEF Distinct, ToSet, IsInjective

\* Two lists without repetition that share nothing make one.
LEMMA DistinctConcat ==
  ASSUME NEW s, NEW t, Distinct(s), Distinct(t), ToSet(s) \cap ToSet(t) = {}
  PROVE  Distinct(s \o t) /\ ToSet(s \o t) = ToSet(s) \cup ToSet(t)
<1> DEFINE u == s \o t
<1>1. /\ s \in Seq(Track) /\ t \in Seq(Track) /\ u \in Seq(Track)
      /\ Len(u) = Len(s) + Len(t)
      /\ \A i \in 1..Len(s) : u[i] = s[i]
      /\ \A i \in 1..Len(t) : u[Len(s) + i] = t[i]
  BY DEF Distinct
<1>2. \A i \in 1..Len(u) : i \notin 1..Len(s) => i - Len(s) \in 1..Len(t) /\ u[i] = t[i - Len(s)]
  BY <1>1
<1>3. /\ \A i, j \in 1..Len(s) : s[i] = s[j] => i = j
      /\ \A i, j \in 1..Len(t) : t[i] = t[j] => i = j
      /\ \A i \in 1..Len(s), j \in 1..Len(t) : s[i] # t[j]
  <2>1. DOMAIN s = 1..Len(s) /\ DOMAIN t = 1..Len(t)
    BY <1>1
  <2> QED
    BY <2>1 DEF Distinct, IsInjective, ToSet
<1> HIDE DEF u
<1>4. \A i, j \in 1..Len(u) : u[i] = u[j] => i = j
  <2> SUFFICES ASSUME NEW i \in 1..Len(u), NEW j \in 1..Len(u), u[i] = u[j]
               PROVE  i = j
    OBVIOUS
  <2>1. CASE i \in 1..Len(s) /\ j \in 1..Len(s)
    BY <1>1, <1>3, <2>1
  <2>2. CASE i \notin 1..Len(s) /\ j \notin 1..Len(s)
    <3>1. /\ i - Len(s) \in 1..Len(t) /\ u[i] = t[i - Len(s)]
          /\ j - Len(s) \in 1..Len(t) /\ u[j] = t[j - Len(s)]
      BY <1>2, <2>2
    <3>2. i - Len(s) = j - Len(s)
      BY <1>3, <3>1
    <3>3. i \in Int /\ j \in Int /\ Len(s) \in Int
      BY <1>1
    <3> QED
      BY <3>2, <3>3
  <2>3. CASE i \in 1..Len(s) /\ j \notin 1..Len(s)
    <3>1. u[i] = s[i] /\ j - Len(s) \in 1..Len(t) /\ u[j] = t[j - Len(s)]
      BY <1>1, <1>2, <2>3
    <3> QED
      BY <1>3, <2>3, <3>1, Zenon
  <2>4. CASE i \notin 1..Len(s) /\ j \in 1..Len(s)
    <3>1. u[j] = s[j] /\ i - Len(s) \in 1..Len(t) /\ u[i] = t[i - Len(s)]
      BY <1>1, <1>2, <2>4
    <3> QED
      BY <1>3, <2>4, <3>1, Zenon
  <2> QED
    BY <2>1, <2>2, <2>3, <2>4
<1>5. ToSet(u) \subseteq ToSet(s) \cup ToSet(t)
  <2>1. DOMAIN u = 1..Len(u) /\ DOMAIN s = 1..Len(s) /\ DOMAIN t = 1..Len(t)
    BY <1>1
  <2>2. \A i \in 1..Len(u) : \/ i \in 1..Len(s) /\ u[i] = s[i]
                             \/ i - Len(s) \in 1..Len(t) /\ u[i] = t[i - Len(s)]
    BY <1>1, <1>2
  <2> QED
    BY <2>1, <2>2, Zenon DEF ToSet
<1>6. ToSet(s) \cup ToSet(t) \subseteq ToSet(u)
  <2>1. Len(s) \in Nat /\ Len(t) \in Nat
    BY <1>1
  <2>2. \A i \in 1..Len(s) : i \in DOMAIN u /\ u[i] = s[i]
    BY <1>1, <2>1
  <2>3. \A i \in 1..Len(t) : Len(s) + i \in DOMAIN u /\ u[Len(s) + i] = t[i]
    BY <1>1, <2>1
  <2>4. DOMAIN s = 1..Len(s) /\ DOMAIN t = 1..Len(t)
    BY <1>1
  <2> QED
    BY <2>2, <2>3, <2>4 DEF ToSet
<1> QED
  BY <1>1, <1>4, <1>5, <1>6 DEF Distinct, IsInjective, u

\* What is left of a list without repetition when its first element goes.
LEMMA DistinctTail ==
  ASSUME NEW s, Distinct(s), s # <<>>
  PROVE  Distinct(Tail(s)) /\ ToSet(Tail(s)) \subseteq ToSet(s) /\ Len(Tail(s)) = Len(s) - 1
<1>1. /\ s \in Seq(Track) /\ Tail(s) \in Seq(Track) /\ Len(Tail(s)) = Len(s) - 1
      /\ \A i \in 1..Len(Tail(s)) : i + 1 \in 1..Len(s) /\ Tail(s)[i] = s[i + 1]
  BY DEF Distinct
<1>2. \A i, j \in 1..Len(s) : s[i] = s[j] => i = j
  BY <1>1 DEF Distinct, IsInjective
<1>3. \A i, j \in 1..Len(Tail(s)) : Tail(s)[i] = Tail(s)[j] => i = j
  BY <1>1, <1>2
<1>4. ToSet(Tail(s)) \subseteq ToSet(s)
  BY <1>1 DEF ToSet
<1> QED
  BY <1>1, <1>3, <1>4 DEF Distinct, IsInjective

\* The queue, as the player has it or as its mirror, next to the batch under way.
Ahead(s) == Distinct(s) /\ ToSet(s) \cap batch = {} /\ ToSet(s) \subseteq seen

QueueInv ==
  /\ batch \in SUBSET Track /\ batch \subseteq seen
  /\ Ahead(list) /\ Ahead(appended)
  /\ storage \in [autoplay : BOOLEAN, queue : Seq(Track)] /\ storage.queue = appended
  /\ queuedAhead = Len(appended)
  /\ queuedAhead + Cardinality(batch) <= QueueSize

\* Facts about the empty list.
LEMMA EmptyQueue ==
  /\ Distinct(<<>>) /\ ToSet(<<>>) = {} /\ Len(<<>>) = 0
  /\ Cardinality({}) = 0 /\ QueueSize \in Nat
BY AutoplayAssumption, FS_EmptySet DEF Distinct, IsInjective, ToSet

\* The queue of a new process is empty.
LEMMA QueueInit == AutoplayInit => QueueInv
BY EmptyQueue DEF AutoplayInit, QueueInv, Ahead

\* A batch fits into the room there is and holds nothing that was seen.
LEMMA TakeBatchFits ==
  ASSUME QueueInv, NEW p, TakeBatch(p), UNCHANGED <<list, appended, storage, queuedAhead>>
  PROVE  QueueInv'
<1>1. PICK S \in Batches(p, QueueSize - queuedAhead) : batch' = S /\ seen' = seen \cup S
  BY DEF TakeBatch, Remembered
<1>2. S \in SUBSET Track /\ S \cap seen = {} /\ Cardinality(S) <= QueueSize - queuedAhead
  BY DEF Batches
<1>3. Cardinality(S) \in Nat /\ queuedAhead \in Nat /\ QueueSize \in Nat
  BY <1>2, SetToSeqDistinct, EmptyQueue DEF QueueInv, Ahead, Distinct
<1>4. queuedAhead' + Cardinality(batch') <= QueueSize
  BY <1>1, <1>2, <1>3
<1>5. Ahead(list)' /\ Ahead(appended)'
  BY <1>1, <1>2 DEF QueueInv, Ahead, Distinct
<1> QED
  BY <1>1, <1>2, <1>4, <1>5 DEF QueueInv

\* What is appended was in the batch, which is empty then.
LEMMA AppendFits ==
  ASSUME QueueInv, NEW S \in SUBSET batch, AppendAll(S), UNCHANGED seen
  PROVE  QueueInv'
<1> DEFINE entries == SetToSeq(S)
<1>1. /\ Distinct(entries) /\ ToSet(entries) \subseteq S /\ Len(entries) = Cardinality(S)
      /\ Cardinality(S) \in Nat /\ IsFiniteSet(batch) /\ Cardinality(batch) \in Nat
  BY SetToSeqDistinct DEF QueueInv
<1>2. /\ list' = list \o entries /\ appended' = appended \o entries
      /\ queuedAhead' = queuedAhead + Cardinality(S) /\ batch' = {}
      /\ storage' = [storage EXCEPT !.queue = appended']
  BY DEF AppendAll
<1> HIDE DEF entries
<1>3. ASSUME NEW s, Ahead(s)
      PROVE  /\ Distinct(s \o entries) /\ ToSet(s \o entries) \subseteq seen
             /\ Len(s \o entries) = Len(s) + Cardinality(S)
  <2>1. Distinct(s \o entries) /\ ToSet(s \o entries) = ToSet(s) \cup ToSet(entries)
    BY <1>1, <1>3, DistinctConcat DEF Ahead
  <2>2. Len(s \o entries) = Len(s) + Len(entries)
    BY <1>1, <1>3 DEF Ahead, Distinct
  <2> QED
    BY <1>1, <1>3, <2>1, <2>2 DEF Ahead, QueueInv
<1>4. Ahead(list)' /\ Ahead(appended)' /\ queuedAhead' = Len(appended')
  BY <1>2, <1>3 DEF QueueInv, Ahead, Distinct
<1>5. storage' \in [autoplay : BOOLEAN, queue : Seq(Track)] /\ storage'.queue = appended'
  BY <1>2, <1>4 DEF QueueInv, Ahead, Distinct
<1>6. queuedAhead' + Cardinality(batch') <= QueueSize
  <2>1. Cardinality(S) <= Cardinality(batch)
    BY <1>1, FS_Subset
  <2>2. queuedAhead \in Nat
    BY DEF QueueInv, Ahead, Distinct
  <2> QED
    BY <1>1, <1>2, <2>1, <2>2, EmptyQueue DEF QueueInv
<1> QED
  BY <1>2, <1>4, <1>5, <1>6 DEF QueueInv

\* The estimate and the mirror lose the entry that begins to play.
LEMMA ShiftFits ==
  ASSUME QueueInv, NEW x, AutoplayTrackStarts(x), UNCHANGED list
  PROVE  QueueInv'
<1>1. /\ seen' = seen \cup {x} /\ batch' = batch /\ appended' = ShiftMirror
      /\ queuedAhead' = Max({0, queuedAhead - 1})
      /\ storage' = [storage EXCEPT !.queue = appended']
  BY DEF AutoplayTrackStarts
<1>2. queuedAhead \in Nat /\ queuedAhead = Len(appended) /\ appended \in Seq(Track)
  BY DEF QueueInv, Ahead, Distinct
<1>3. Max({0, queuedAhead - 1}) = IF queuedAhead = 0 THEN 0 ELSE queuedAhead - 1
  <2> DEFINE m == IF queuedAhead = 0 THEN 0 ELSE queuedAhead - 1
  <2>1. m \in {0, queuedAhead - 1} /\ \A y \in {0, queuedAhead - 1} : m >= y
    BY <1>2
  <2>2. \A y \in {0, queuedAhead - 1} : (\A z \in {0, queuedAhead - 1} : y >= z) => y = m
    BY <1>2
  <2> QED
    BY <2>1, <2>2 DEF Max
<1>4. /\ Distinct(appended') /\ ToSet(appended') \subseteq ToSet(appended)
      /\ queuedAhead' = Len(appended') /\ queuedAhead' <= queuedAhead /\ queuedAhead' \in Nat
  <2>1. CASE appended = <<>>
    BY <1>1, <1>2, <1>3, <2>1, EmptyQueue DEF ShiftMirror
  <2>2. CASE appended # <<>>
    <3>1. Len(appended) > 0
      BY <1>2, <2>2
    <3>2. appended' = Tail(appended)
      BY <1>1, <2>2 DEF ShiftMirror
    <3> QED
      BY <1>1, <1>2, <1>3, <2>2, <3>1, <3>2, DistinctTail DEF QueueInv, Ahead
  <2> QED
    BY <2>1, <2>2
<1>5. Ahead(list)' /\ Ahead(appended)'
  BY <1>1, <1>4 DEF QueueInv, Ahead, Distinct
<1>6. storage' \in [autoplay : BOOLEAN, queue : Seq(Track)] /\ storage'.queue = appended'
  BY <1>1, <1>4 DEF QueueInv, Distinct
<1>7. queuedAhead' + Cardinality(batch') <= QueueSize
  <2>1. Cardinality(batch) \in Nat
    BY SetToSeqDistinct DEF QueueInv
  <2> QED
    BY <1>1, <1>2, <1>4, <2>1, EmptyQueue DEF QueueInv
<1> QED
  BY <1>1, <1>4, <1>5, <1>6, <1>7 DEF QueueInv

\* Another track plays: the mirror is dropped, and the playlist perhaps.
LEMMA DropFits ==
  ASSUME QueueInv, NEW x, NEW replaces, PlayOther(x, replaces)
  PROVE  QueueInv'
<1>1. /\ seen' = seen \cup {x} /\ batch' = batch /\ appended' = <<>> /\ queuedAhead' = 0
      /\ storage' = [storage EXCEPT !.queue = <<>>] /\ list' \in {list, <<>>}
  BY DEF PlayOther, OtherTrackStarts
<1>2. Ahead(list)' /\ Ahead(appended)' /\ queuedAhead' = Len(appended')
  BY <1>1, EmptyQueue DEF QueueInv, Ahead
<1>3. storage' \in [autoplay : BOOLEAN, queue : Seq(Track)] /\ storage'.queue = appended'
  <2>1. appended' = <<>> /\ <<>> \in Seq(Track) /\ storage' = [storage EXCEPT !.queue = <<>>]
    BY <1>1
  <2>2. storage \in [autoplay : BOOLEAN, queue : Seq(Track)]
    BY DEF QueueInv
  <2> QED
    BY <2>1, <2>2
<1>4. queuedAhead' + Cardinality(batch') <= QueueSize
  <2>1. Cardinality(batch) \in Nat /\ queuedAhead \in Nat
    BY SetToSeqDistinct DEF QueueInv, Ahead, Distinct
  <2> QED
    BY <1>1, <2>1, EmptyQueue DEF QueueInv
<1> QED
  BY <1>1, <1>2, <1>3, <1>4 DEF QueueInv

\* Without its batch, the queue is as it was.
LEMMA NoBatchFits ==
  ASSUME QueueInv, NEW S \in SUBSET batch, batch' = S,
         UNCHANGED <<list, appended, storage, queuedAhead, seen>>
  PROVE  QueueInv'
<1>1. /\ IsFiniteSet(batch) /\ Cardinality(batch) \in Nat /\ Cardinality(S) \in Nat
      /\ Cardinality(S) <= Cardinality(batch)
  BY SetToSeqDistinct, FS_Subset DEF QueueInv
<1>2. queuedAhead' + Cardinality(batch') <= QueueSize
  BY <1>1, EmptyQueue DEF QueueInv, Ahead, Distinct
<1> QED
  BY <1>2 DEF QueueInv, Ahead, Distinct

\* Every handler keeps the account of the queue.
LEMMA QueueStep == QueueInv /\ [AutoplayNext]_autoplayVars => QueueInv'
<1> SUFFICES ASSUME QueueInv, [AutoplayNext]_autoplayVars
             PROVE  QueueInv'
  OBVIOUS
<1>1. CASE UNCHANGED <<batch, list, appended, storage, queuedAhead, seen>>
  BY <1>1 DEF QueueInv, Ahead, Distinct
<1>2. CASE PoolAnswered
  <2>1. UNCHANGED <<list, appended, storage, queuedAhead>>
    BY <1>2 DEF PoolAnswered
  <2>2. UNCHANGED <<batch, seen>> \/ \E p : TakeBatch(p)
    BY <1>2 DEF PoolAnswered
  <2> QED
    BY <1>1, <2>1, <2>2, TakeBatchFits
<1>3. CASE MixAnswered
  <2>1. UNCHANGED <<list, appended, storage, queuedAhead>> /\ \E p : TakeBatch(p)
    BY <1>3 DEF MixAnswered
  <2> QED
    BY <2>1, TakeBatchFits
<1>4. CASE Resolved
  <2>1. PICK found \in SUBSET batch :
          \/ batch' = {} /\ UNCHANGED <<list, appended, storage, queuedAhead>>
          \/ batch' = found /\ UNCHANGED <<list, appended, storage, queuedAhead>>
          \/ AppendAll(found)
    BY <1>4 DEF Resolved
  <2>2. UNCHANGED seen
    BY <1>4 DEF Resolved
  <2> QED
    BY <2>1, <2>2, NoBatchFits, AppendFits
<1>5. CASE Probed
  <2>1. UNCHANGED seen
    BY <1>5 DEF Probed
  <2>2. AppendAll(batch) \/ (batch' = {} /\ UNCHANGED <<list, appended, storage, queuedAhead>>)
    BY <1>5 DEF Probed
  <2> QED
    BY <2>1, <2>2, NoBatchFits, AppendFits
<1>6. ASSUME NEW k \in 1..Len(list), PlayEntry(k)
      PROVE  QueueInv'
  BY <1>6, ShiftFits DEF PlayEntry
<1>7. ASSUME NEW x \in Track, NEW replaces \in BOOLEAN, PlayOther(x, replaces)
      PROVE  QueueInv'
  BY <1>7, DropFits
<1>8. CASE PlaybackStops
  BY <1>1, <1>8 DEF PlaybackStops
<1>9. ASSUME NEW on \in BOOLEAN, SetEnabled(on)
      PROVE  QueueInv'
  <2>1. /\ UNCHANGED <<batch, list, appended, queuedAhead, seen>>
        /\ storage' = [storage EXCEPT !.autoplay = on]
    BY <1>9 DEF SetEnabled
  <2>2. storage' \in [autoplay : BOOLEAN, queue : Seq(Track)] /\ storage'.queue = appended'
    BY <2>1 DEF QueueInv
  <2> QED
    BY <2>1, <2>2 DEF QueueInv, Ahead, Distinct
<1>10. CASE Rate
  BY <1>1, <1>10 DEF Rate
<1>11. CASE RestartPlayer
  <2>1. /\ list' = appended /\ appended' = appended /\ queuedAhead' = Len(appended)
        /\ seen' = ToSet(appended) /\ batch' = {} /\ storage' = storage
    BY <1>11 DEF RestartPlayer, QueueInv
  <2>2. Ahead(list)' /\ Ahead(appended)'
    BY <2>1 DEF QueueInv, Ahead
  <2>3. queuedAhead' + Cardinality(batch') <= QueueSize
    <3>1. Cardinality(batch) \in Nat /\ queuedAhead \in Nat /\ queuedAhead = Len(appended)
      BY SetToSeqDistinct DEF QueueInv, Ahead, Distinct
    <3> QED
      BY <2>1, <3>1, EmptyQueue DEF QueueInv
  <2> QED
    BY <2>1, <2>2, <2>3 DEF QueueInv
<1>12. CASE UNCHANGED autoplayVars
  BY <1>1, <1>12 DEF autoplayVars
<1> QED
  BY <1>2, <1>3, <1>4, <1>5, <1>6, <1>7, <1>8, <1>9, <1>10, <1>11, <1>12 DEF AutoplayNext

\* AutoplayFeature.ts:102: for any tracks and limits, estimate, mirror and what is
\* stored agree, and the queue with the batch under way stays within QUEUE_SIZE.
THEOREM QueueIsAccountedFor == AutoplaySpec => []QueueAccount
<1>1. QueueInv => QueueAccount
  BY DEF QueueInv, QueueAccount
<1> QED
  BY QueueInit, QueueStep, <1>1, PTL DEF AutoplaySpec

\* AutoplayFeature.ts:92: for any tracks and limits, no track is appended twice.
THEOREM NoTrackTwice == AutoplaySpec => []QueuedOnce
<1>1. QueueInv => QueuedOnce
  BY DEF QueueInv, Ahead, Distinct, QueuedOnce
<1> QED
  BY QueueInit, QueueStep, <1>1, PTL DEF AutoplaySpec

-----------------------------------------------------------------------------
\* What both properties need: the histories and sets have their types.
FeedbackInv ==
  /\ marks \in [Verdict -> SUBSET Song] /\ saved \in [Verdict -> SUBSET Song]
  /\ heard \in Heard \cup {NoneHeard}
  /\ verdict \in [Song -> Verdict \cup {"none", "mixed"}]
  /\ ManualWins
  /\ NudgeAsksUnrated

\* A verdict replaces the one the song had, if that was a single one, and leaves the
\* other songs alone.
LEMMA MarkReplaces ==
  ASSUME NEW m \in [Verdict -> SUBSET Song], NEW v \in Verdict, NEW s \in Song
  PROVE  /\ Mark(m, v, s) \in [Verdict -> SUBSET Song]
         /\ \A t \in Song \ {s} : VerdictsOn(Mark(m, v, s), t) = VerdictsOn(m, t)
         /\ s \notin m[v] => VerdictsOn(Mark(m, v, s), s) = {v}
         /\ s \in m[v] => VerdictsOn(Mark(m, v, s), s) = VerdictsOn(m, s)
BY DEF Mark, VerdictsOn

\* Whatever entries a save could store, verdicts stay of their type.
LEMMA SaveType ==
  ASSUME NEW m \in [Verdict -> SUBSET Song], saved \in [Verdict -> SUBSET Song], Save(m)
  PROVE  saved' \in [Verdict -> SUBSET Song]
BY DEF Save

\* At the start no song is rated and no prompt is shown.
LEMMA FeedbackFirst == FeedbackInit => FeedbackInv
BY DEF FeedbackInit, FeedbackInv, ManualWins, NudgeAsksUnrated, VerdictsOn

\* A key gives its song this verdict and no other.
LEMMA KeyWins ==
  ASSUME FeedbackInv, NEW v \in Verdict, Key(v)
  PROVE  FeedbackInv'
<1> DEFINE s == heard.song
           m == Mark(marks, v, s)
<1>1. s \in Song
  BY DEF FeedbackInv, Key, Heard, NoneHeard
<1>2. /\ marks' = m /\ Save(m) /\ nudgeShown' = FALSE /\ heard' = heard
      /\ verdict' = IF verdict[s] = "mixed" THEN verdict ELSE [verdict EXCEPT ![s] = v]
  BY DEF Key, NudgeShown
<1>3. m \in [Verdict -> SUBSET Song] /\ saved' \in [Verdict -> SUBSET Song]
  BY <1>1, <1>2, MarkReplaces, SaveType DEF FeedbackInv
<1>4. ASSUME NEW t \in Song, verdict'[t] # "mixed"
      PROVE  VerdictsOn(marks', t) = IF verdict'[t] = "none" THEN {} ELSE {verdict'[t]}
  <2> HIDE DEF m, s
  <2>1. CASE t # s
    BY <1>1, <1>2, <1>4, <2>1, MarkReplaces DEF FeedbackInv, ManualWins, m
  <2>2. CASE t = s
    <3>1. verdict[s] # "mixed" /\ verdict'[s] = v /\ v # "none"
      BY <1>1, <1>2, <1>4, <2>2 DEF FeedbackInv, Verdict
    <3>2. s \in marks[v] => VerdictsOn(marks, s) = {v}
      BY <1>1, <3>1 DEF FeedbackInv, ManualWins, VerdictsOn
    <3> QED
      BY <1>1, <1>2, <2>2, <3>1, <3>2, MarkReplaces DEF FeedbackInv, m
  <2> QED
    BY <2>1, <2>2
<1> QED
  BY <1>1, <1>2, <1>3, <1>4 DEF FeedbackInv, ManualWins, NudgeAsksUnrated, Verdict

\* The verdict inferred from a skip, and the prompt for the next track.
LEMMA ListenWins ==
  ASSUME FeedbackInv, NEW listen \in {"skipped", "through", "partly"},
         NEW next \in Heard \cup {NoneHeard}, TrackChanges(listen, next)
  PROVE  FeedbackInv'
<1> DEFINE s == heard.song
           m == IF playing THEN Inferred(marks, listen) ELSE marks
           auto == IF listen = "skipped" THEN "blocked" ELSE "liked"
           infers == playing /\ heard.auto /\ listen # "partly" /\ ~Rated(marks, s)
<1>1. heard.auto => s \in Song
  BY DEF FeedbackInv, Heard, NoneHeard
<1>2. m = IF infers THEN Mark(marks, auto, s) ELSE marks
  BY DEF Inferred
<1>3. auto \in Verdict
  BY DEF Verdict
<1>4. marks' = m /\ Save(m) /\ playing' = (next # NoneHeard)
  BY DEF TrackChanges
<1>5. verdict' = IF playing /\ heard.auto /\ listen # "partly" /\ verdict[s] = "none"
                 THEN [verdict EXCEPT ![s] = auto] ELSE verdict
  BY DEF TrackChanges
<1>6. m \in [Verdict -> SUBSET Song]
  <2> HIDE DEF m, auto, s
  <2> QED
    BY <1>1, <1>2, <1>3, MarkReplaces DEF FeedbackInv
<1>7. saved' \in [Verdict -> SUBSET Song]
  <2> HIDE DEF m
  <2> QED
    BY <1>4, <1>6, SaveType DEF FeedbackInv
<1>8. ASSUME NEW t \in Song, verdict'[t] # "mixed"
      PROVE  VerdictsOn(marks', t) = IF verdict'[t] = "none" THEN {} ELSE {verdict'[t]}
  <2> HIDE DEF m, auto, s
  <2>1. CASE t # s \/ ~heard.auto
    <3>1. verdict'[t] = verdict[t]
      BY <1>5, <2>1 DEF FeedbackInv
    <3>2. VerdictsOn(marks', t) = VerdictsOn(marks, t)
      BY <1>1, <1>2, <1>3, <1>4, <2>1, MarkReplaces DEF FeedbackInv
    <3> QED
      BY <1>8, <3>1, <3>2 DEF FeedbackInv, ManualWins
  <2>2. CASE t = s /\ heard.auto
    <3>1. verdict[s] # "mixed"
      BY <1>5, <1>8, <2>2 DEF FeedbackInv
    <3>2. Rated(marks, s) <=> verdict[s] # "none"
      BY <2>2, <3>1 DEF FeedbackInv, ManualWins, Rated
    <3>3. CASE infers
      <4>1. verdict'[s] = auto
        BY <1>5, <2>2, <3>2, <3>3 DEF FeedbackInv
      <4>2. s \notin marks[auto]
        BY <1>3, <3>3 DEF Rated, VerdictsOn
      <4>3. VerdictsOn(marks', s) = {auto}
        BY <1>1, <1>2, <1>3, <1>4, <2>2, <3>3, <4>2, MarkReplaces DEF FeedbackInv
      <4> QED
        BY <1>3, <2>2, <4>1, <4>3 DEF Verdict
    <3>4. CASE ~infers
      <4>1. verdict' = verdict /\ marks' = marks
        BY <1>2, <1>4, <1>5, <3>2, <3>4
      <4> QED
        BY <1>8, <4>1 DEF FeedbackInv, ManualWins
    <3> QED
      BY <3>3, <3>4
  <2> QED
    BY <2>1, <2>2
<1>9. NudgeAsksUnrated'
  <2> HIDE DEF m
  <2>1. CASE next = NoneHeard
    BY <1>4, <2>1 DEF NudgeAsksUnrated
  <2>2. CASE next # NoneHeard
    <3>1. heard' = next /\ Nudge(m, next)
      BY <2>2 DEF TrackChanges, m
    <3>2. next.auto /\ nudgeShown' => ~Rated(m, next.song)
      BY <3>1 DEF Nudge, NudgeShown
    <3> QED
      BY <1>4, <3>1, <3>2 DEF NudgeAsksUnrated
  <2> QED
    BY <2>1, <2>2
<1>10. heard' \in Heard \cup {NoneHeard}
  BY DEF TrackChanges, FeedbackInv
<1>11. verdict' \in [Song -> Verdict \cup {"none", "mixed"}]
  BY <1>3, <1>5 DEF FeedbackInv
<1> QED
  BY <1>4, <1>6, <1>7, <1>8, <1>9, <1>10, <1>11 DEF FeedbackInv, ManualWins

\* There are finitely many verdicts.
LEMMA VerdictsFinite == IsFiniteSet(Verdict)
<1>1. IsFiniteSet({}) /\ \A S, v : IsFiniteSet(S) => IsFiniteSet(S \cup {v})
  BY FS_EmptySet, FS_AddElement
<1>2. Verdict = (({} \cup {"liked"}) \cup {"blocked"}) \cup {"normal"}
  BY DEF Verdict
<1> QED
  BY <1>1, <1>2

\* What a restart loads is what was last given.
LEMMA RestartKeepsFeedback ==
  ASSUME FeedbackInv, RestartFeedback
  PROVE  FeedbackInv'
<1> DEFINE V(s) == VerdictsOn(saved, s)
<1>1. /\ marks' = saved /\ saved' = saved /\ heard' = NoneHeard /\ nudgeShown' = FALSE
      /\ verdict' = [s \in Song |-> CASE V(s) = {} -> "none"
                                      [] Cardinality(V(s)) = 1 -> CHOOSE v \in V(s) : TRUE
                                      [] OTHER -> "mixed"]
  BY DEF RestartFeedback
<1>2. ASSUME NEW s \in Song
      PROVE  /\ V(s) = {} => verdict'[s] = "none"
             /\ V(s) # {} /\ Cardinality(V(s)) = 1 => V(s) = {verdict'[s]}
             /\ V(s) # {} /\ Cardinality(V(s)) # 1 => verdict'[s] = "mixed"
  <2>1. CASE V(s) # {} /\ Cardinality(V(s)) = 1
    <3>1. PICK v : V(s) = {v}
      <4>1. V(s) \subseteq Verdict
        BY DEF VerdictsOn
      <4>2. IsFiniteSet(V(s))
        BY <4>1, VerdictsFinite, FS_Subset
      <4> QED
        BY <2>1, <4>2, FS_CardinalityType, FS_Singleton
    <3>2. verdict'[s] = CHOOSE w \in V(s) : TRUE
      BY <1>1, <2>1
    <3> QED
      BY <2>1, <3>1, <3>2
  <2>2. CASE ~(V(s) # {} /\ Cardinality(V(s)) = 1)
    BY <1>1, <2>2
  <2> QED
    BY <2>1, <2>2
<1>3. ASSUME NEW s \in Song
      PROVE  /\ verdict'[s] \in Verdict \cup {"none", "mixed"}
             /\ verdict'[s] # "mixed" =>
                  VerdictsOn(marks', s) = IF verdict'[s] = "none" THEN {} ELSE {verdict'[s]}
  <2>1. VerdictsOn(marks', s) = V(s) /\ V(s) \subseteq Verdict
    BY <1>1 DEF VerdictsOn
  <2>2. "none" \notin Verdict
    BY DEF Verdict
  <2> HIDE DEF V
  <2> QED
    BY <1>2, <2>1, <2>2
<1>4. verdict' \in [Song -> Verdict \cup {"none", "mixed"}]
  BY <1>1, <1>3
<1> QED
  BY <1>1, <1>3, <1>4 DEF FeedbackInv, ManualWins, NudgeAsksUnrated

\* Every handler keeps marks and prompt in step with the history.
LEMMA FeedbackStep == FeedbackInv /\ [FeedbackNext]_feedbackVars => FeedbackInv'
<1> SUFFICES ASSUME FeedbackInv, [FeedbackNext]_feedbackVars
             PROVE  FeedbackInv'
  OBVIOUS
<1>1. ASSUME NEW v \in Verdict, Key(v)
      PROVE  FeedbackInv'
  BY <1>1, KeyWins
<1>2. ASSUME NEW listen \in {"skipped", "through", "partly"},
             NEW next \in Heard \cup {NoneHeard}, TrackChanges(listen, next)
      PROVE  FeedbackInv'
  BY <1>2, ListenWins
<1>3. CASE RestartFeedback
  BY <1>3, RestartKeepsFeedback
<1>4. CASE UNCHANGED <<marks, saved, heard, playing, nudgeShown, verdict>>
  BY <1>4 DEF FeedbackInv, ManualWins, NudgeAsksUnrated, VerdictsOn, Rated
<1>5. CASE SwitchAutoplay \/ DismissCard \/ UNCHANGED feedbackVars
  BY <1>4, <1>5 DEF SwitchAutoplay, DismissCard, feedbackVars
<1> QED
  BY <1>1, <1>2, <1>3, <1>5 DEF FeedbackNext

\* AutoplayFeature.ts: for any number of songs, whichever writes to localStorage
\* fail, each song keeps the verdict given last.
THEOREM LastVerdictStands == FeedbackSpec => []ManualWins
<1>1. FeedbackInv => ManualWins
  BY DEF FeedbackInv
<1> QED
  BY FeedbackFirst, FeedbackStep, <1>1, PTL DEF FeedbackSpec

\* autoplay-nudge.ts: for any period of the prompt, it never asks about a track
\* that has a verdict.
THEOREM PromptIsWarranted == FeedbackSpec => []NudgeAsksUnrated
<1>1. FeedbackInv => NudgeAsksUnrated
  BY DEF FeedbackInv
<1> QED
  BY FeedbackFirst, FeedbackStep, <1>1, PTL DEF FeedbackSpec

-----------------------------------------------------------------------------
\* What was sent belongs to plays that began, and to the play under way only
\* once the flag `scrobbled` is up, which every interval looks at.
SentOnce ==
  /\ play \in Nat
  /\ sent \in [Play \X Service -> Nat]
  /\ \A q \in Play \X Service :
       /\ sent[q] <= 1
       /\ sent[q] > 0 => q[1] < play \/ (q[1] = play /\ scrobbled)

\* At the start nothing was sent.
LEMMA SentOnceInit == ListeningInit => SentOnce
BY ListeningAssumption DEF ListeningInit, SentOnce, Play

\* Every handler keeps it.
LEMMA SentOnceNext == SentOnce /\ [ListeningNext]_listeningVars => SentOnce'
<1> SUFFICES ASSUME SentOnce, [ListeningNext]_listeningVars
             PROVE  SentOnce'
  OBVIOUS
<1>0. \A q \in Play \X Service : q[1] \in Int
  BY DEF Play
<1>1. ASSUME NEW starts \in BOOLEAN, TrackChange(starts)
      PROVE  SentOnce'
  <2>1. CASE starts
    <3>1. play' = play + 1 /\ sent' = sent /\ scrobbled' = FALSE
      BY <1>1, <2>1 DEF TrackChange, ScrobbleStarts
    <3> QED
      BY <1>0, <3>1 DEF SentOnce
  <2>2. CASE ~starts
    <3>1. UNCHANGED <<play, sent, scrobbled>>
      BY <1>1, <2>2 DEF TrackChange, scrobbleVars
    <3> QED
      BY <3>1 DEF SentOnce
  <2> QED
    BY <2>1, <2>2
<1>2. ASSUME NEW c \in timers, TimerFires(c)
      PROVE  SentOnce'
  <2>1. /\ ~scrobbled /\ scrobbled' = TRUE /\ play' = play
        /\ sent' = [q \in Play \X Service |->
                      IF q[1] = play /\ q[2] \in c.to THEN sent[q] + 1 ELSE sent[q]]
    BY <1>2 DEF TimerFires, MayScrobble
  <2>2. \A q \in Play \X Service : q[1] = play => sent[q] = 0
    BY <1>0, <2>1 DEF SentOnce
  <2> QED
    BY <1>0, <2>1, <2>2 DEF SentOnce
<1>3. CASE UNCHANGED <<play, sent, scrobbled>>
  BY <1>3 DEF SentOnce
<1>4. ASSUME NEW s, StatusChange(s)
      PROVE  UNCHANGED <<play, sent, scrobbled>>
  BY <1>4 DEF StatusChange, scrobbleVars
<1>5. ASSUME NEW c, StatusAnswered(c)
      PROVE  UNCHANGED <<play, sent, scrobbled>>
  BY <1>5 DEF StatusAnswered
<1>6. ASSUME NEW s, SwitchService(s)
      PROVE  UNCHANGED <<play, sent, scrobbled>>
  BY <1>6 DEF SwitchService
<1>7. ASSUME NEW e, ListenResolved(e)
      PROVE  UNCHANGED <<play, sent, scrobbled>>
  BY <1>7 DEF ListenResolved, scrobbleVars
<1>8. CASE ListeningTick
  BY <1>3, <1>8 DEF ListeningTick, scrobbleVars
<1>9. CASE UNCHANGED listeningVars
  BY <1>3, <1>9 DEF listeningVars
<1> QED
  BY <1>1, <1>2, <1>3, <1>4, <1>5, <1>6, <1>7, <1>8, <1>9 DEF ListeningNext

\* ScrobbleFeature.ts: for any number of plays and services, whatever intervals
\* are left behind, no play is scrobbled twice to a service.
THEOREM NeverScrobbledTwice == ListeningSpec => []ScrobbledOnce
<1>1. SentOnce => ScrobbledOnce
  BY DEF SentOnce, ScrobbledOnce
<1> QED
  BY SentOnceInit, SentOnceNext, <1>1, PTL DEF ListeningSpec

-----------------------------------------------------------------------------
Row == [id : 1..lastId, of : Listen]

RowsOK ==
  /\ lastId \in Nat
  /\ queued \subseteq [id : 1..lastId, of : Listen, attempts : Nat]
  /\ \A r \in queued : command[r.of] = "queued"
  /\ \A r, q \in queued : r.id = q.id <=> r.of = q.of

FlushesOK ==
  /\ \A f \in Flushes : \A r \in flushing[f] :
       /\ r \in Row /\ command[r.of] = "queued"
       /\ \A q \in queued : r.id = q.id <=> r.of = q.of
  /\ \A f, g \in Flushes :
       \A r \in flushing[f], q \in flushing[g] : r.id = q.id <=> r.of = q.of

CommandsOK ==
  /\ DOMAIN command = Listen /\ DOMAIN flushing = Flushes /\ DOMAIN flushTook = Flushes
  /\ delivered \in [Listen -> 0..2]

TookOK == \A f \in Flushes : flushTook[f] => flushing[f] # {} /\ delivered[Current(f).of] > 0

\* The service has taken l, and the flush f does not know yet.
At(l, f) == flushTook[f] /\ Current(f).of = l

OnceOK ==
  \A l \in Listen \ doubtful :
    /\ delivered[l] <= 1
    /\ command[l] \in {"no", "sending"} => delivered[l] = 0
    /\ \A f, g \in Flushes : InFlush(l, f) /\ InFlush(l, g) => f = g
    /\ command[l] = "queued" /\ delivered[l] > 0 =>
         /\ \A f \in Flushes : InFlush(l, f) => At(l, f)
         /\ InQueue(l) => \E f \in Flushes : At(l, f)

QInv == RowsOK /\ FlushesOK /\ CommandsOK /\ TookOK /\ OnceOK /\ NoneVanishes

(* A nonempty set of natural numbers has a least one.                      *)
LEMMA LeastNumber ==
  ASSUME NEW N \in SUBSET Nat, N # {}
  PROVE  \E n \in N : \A m \in N : n <= m
<1>1. PICK n \in N : \A m \in N : <<m, n>> \notin OpToRel(<, Nat)
  BY NatLessThanWellFounded, WFMin
<1>2. ASSUME NEW m \in N PROVE n <= m
  <2>1. m \in Nat /\ n \in Nat
    OBVIOUS
  <2>2. ASSUME m < n PROVE <<m, n>> \in OpToRel(<, Nat)
    BY <2>1, <2>2 DEF OpToRel
  <2>3. ~ (m < n)
    BY <1>1, <2>2
  <2> QED
    BY <2>1, <2>3
<1> QED
  BY <1>2

(* The row that a flush is at is one of those it has read.                 *)
LEMMA CurrentIsRead ==
  ASSUME FlushesOK, NEW f \in Flushes, flushing[f] # {}
  PROVE  /\ Current(f) \in flushing[f] /\ Current(f) \in Row
         /\ Current(f).of \in Listen /\ command[Current(f).of] = "queued"
<1>1. PICK r \in flushing[f] : \A q \in flushing[f] : r.id <= q.id
  <2> DEFINE N == {q.id : q \in flushing[f]}
  <2>1. N \in SUBSET Nat /\ N # {}
    BY DEF FlushesOK, Row
  <2> HIDE DEF N
  <2>2. PICK n \in N : \A m \in N : n <= m
    BY <2>1, LeastNumber
  <2> QED
    BY <2>2 DEF N
<1>2. Current(f) \in flushing[f]
  BY <1>1 DEF Current
<1> QED
  BY <1>2 DEF FlushesOK, Row

\* The queue starts empty.
LEMMA QueueStart == ScrobbleQueueInit => QInv
<1> SUFFICES ASSUME ScrobbleQueueInit PROVE QInv
  OBVIOUS
<1> USE DEF ScrobbleQueueInit
<1>1. RowsOK /\ FlushesOK /\ CommandsOK /\ TookOK /\ NoneVanishes
  BY DEF RowsOK, FlushesOK, CommandsOK, TookOK, NoneVanishes
<1>2. OnceOK
  BY DEF OnceOK, InFlush
<1> QED
  BY <1>1, <1>2 DEF QInv

(* Commands that get no row.                                               *)
LEMMA CommandKeeps ==
  ASSUME QInv, NEW l \in Listen, NEW c \in {"sending", "taken", "done", "lost"},
         command[l] # "queued", Becomes(l, c),
         UNCHANGED <<queued, lastId, flushing, flushTook>>, doubtful \subseteq doubtful',
         \/ delivered' = delivered /\ (c = "sending" => command[l] = "no")
         \/ /\ Taken(l) /\ command[l] = "sending" /\ c = "taken"
  PROVE  QInv'
<1> USE DEF QInv, Becomes
<1>1. /\ command'[l] = c
      /\ \A k \in Listen \ {l} : command'[k] = command[k] /\ delivered'[k] = delivered[k]
  BY DEF CommandsOK, Taken
<1>2. \A k \in Listen : command[k] = "queued" => k # l /\ command'[k] = "queued"
  BY <1>1
<1>3. RowsOK'
  BY <1>2 DEF RowsOK
<1>4. FlushesOK'
  BY <1>2 DEF FlushesOK, Row
<1>5. CommandsOK'
  BY DEF CommandsOK, Taken
<1>6. \A f \in Flushes : Current(f)' = Current(f)
  BY DEF Current
<1>7. TookOK'
  <2> SUFFICES ASSUME NEW f \in Flushes, flushTook[f]
               PROVE  flushing[f] # {} /\ delivered'[Current(f).of] > 0
    BY <1>6 DEF TookOK
  <2> QED
    BY <1>1, <1>2, CurrentIsRead DEF TookOK
<1>8. OnceOK'
  <2> SUFFICES ASSUME NEW k \in Listen \ doubtful'
               PROVE  /\ delivered'[k] <= 1
                      /\ command'[k] \in {"no", "sending"} => delivered'[k] = 0
                      /\ \A f, g \in Flushes : InFlush(k, f) /\ InFlush(k, g) => f = g
                      /\ command'[k] = "queued" /\ delivered'[k] > 0 =>
                           /\ \A f \in Flushes : InFlush(k, f) => At(k, f)
                           /\ InQueue(k) => \E f \in Flushes : At(k, f)
    BY <1>6 DEF OnceOK, InFlush, InQueue, At
  <2>1. CASE k = l
    BY <1>1, <2>1 DEF OnceOK, Taken, CommandsOK
  <2>2. CASE k # l
    BY <1>1, <2>2 DEF OnceOK
  <2> QED
    BY <2>1, <2>2
<1>9. NoneVanishes'
  <2> SUFFICES ASSUME NEW k \in Listen, command'[k] = "queued"
               PROVE  InQueue(k) \/ delivered'[k] > 0
    BY DEF NoneVanishes, InQueue
  <2> QED
    BY <1>1 DEF NoneVanishes
<1> QED
  BY <1>3, <1>4, <1>5, <1>7, <1>8, <1>9

(* A listen that no service took gets a row of its own.                    *)
LEMMA QueueAddKeeps ==
  ASSUME QInv, NEW l \in Listen, command[l] \in {"sending", "taken"}, Becomes(l, "queued"),
         lastId' = lastId + 1,
         queued' = queued \cup {[id |-> lastId', of |-> l, attempts |-> 0]},
         doubtful' = IF command[l] = "taken" THEN doubtful \cup {l} ELSE doubtful,
         UNCHANGED <<flushing, flushTook, delivered>>
  PROVE  QInv'
<1> USE DEF QInv, Becomes
<1>1. /\ command'[l] = "queued"
      /\ \A k \in Listen \ {l} : command'[k] = command[k]
  BY DEF CommandsOK
<1>2. \A r \in queued : r.of # l /\ r.id < lastId' /\ r.id \in 1..lastId'
  BY DEF RowsOK
<1>3. \A f \in Flushes : \A r \in flushing[f] :
        /\ r.of # l /\ r.id < lastId' /\ r.of \in Listen
        /\ r \in [id : 1..(lastId + 1), of : Listen]
  BY DEF FlushesOK, Row, RowsOK
<1>4. RowsOK'
  <2>1. lastId' \in Nat /\ lastId' \in 1..lastId'
    BY DEF RowsOK
  <2>2. \A r \in queued' : r \in queued \/ (r.id = lastId' /\ r.of = l)
    OBVIOUS
  <2> QED
    BY <1>1, <1>2, <2>1, <2>2 DEF RowsOK
<1>5. FlushesOK'
  <2>1. \A r \in queued' : r \in queued \/ (r.id = lastId' /\ r.of = l)
    OBVIOUS
  <2>2. ASSUME NEW f \in Flushes, NEW r \in flushing[f], NEW q \in queued'
        PROVE  r.id = q.id <=> r.of = q.of
    BY <1>3, <2>1 DEF FlushesOK
  <2> QED
    BY <1>1, <1>3, <2>2 DEF FlushesOK, Row
<1>6. CommandsOK'
  BY DEF CommandsOK
<1>7. \A f \in Flushes : Current(f)' = Current(f)
  BY DEF Current
<1>8. TookOK'
  BY <1>7 DEF TookOK
<1>9. OnceOK'
  <2> SUFFICES ASSUME NEW k \in Listen \ doubtful'
               PROVE  /\ delivered[k] <= 1
                      /\ command'[k] \in {"no", "sending"} => delivered[k] = 0
                      /\ \A f, g \in Flushes : InFlush(k, f) /\ InFlush(k, g) => f = g
                      /\ command'[k] = "queued" /\ delivered[k] > 0 =>
                           /\ \A f \in Flushes : InFlush(k, f) => At(k, f)
                           /\ InQueue(k)' => \E f \in Flushes : At(k, f)
    BY <1>7 DEF OnceOK, InFlush, At
  <2>1. k \in Listen \ doubtful
    OBVIOUS
  <2>2. CASE k = l
    BY <2>1, <2>2 DEF OnceOK
  <2>3. CASE k # l
    <3>1. InQueue(k)' <=> InQueue(k)
      BY <2>3 DEF InQueue
    <3> QED
      BY <1>1, <2>1, <2>3, <3>1 DEF OnceOK
  <2> QED
    BY <2>2, <2>3
<1>10. NoneVanishes'
  <2> SUFFICES ASSUME NEW k \in Listen, command'[k] = "queued"
               PROVE  InQueue(k)' \/ delivered[k] > 0
    BY DEF NoneVanishes
  <2>1. CASE k = l
    <3>1. [id |-> lastId', of |-> l, attempts |-> 0] \in queued'
      OBVIOUS
    <3> QED
      BY <2>1, <3>1 DEF InQueue
  <2>2. CASE k # l
    BY <1>1, <2>2 DEF NoneVanishes, InQueue
  <2> QED
    BY <2>1, <2>2
<1> QED
  BY <1>4, <1>5, <1>6, <1>8, <1>9, <1>10

(* A flush reads rows; listens that another flush has read are doubtful.   *)
LEMMA StartFlushKeeps ==
  ASSUME QInv, NEW h \in Flushes, StartFlush(h)
  PROVE  QInv'
<1> USE DEF QInv, StartFlush
<1>1. \A f \in Flushes \ {h} : flushing'[f] = flushing[f]
  BY DEF CommandsOK
<1>2. \A r \in flushing'[h] : \E q \in queued : r.id = q.id /\ r.of = q.of /\ r = [id |-> q.id, of |-> q.of]
  <2>1. flushing'[h] = {[id |-> q.id, of |-> q.of] : q \in Batch} /\ Batch \subseteq queued
    BY DEF CommandsOK, Batch, Retryable
  <2> QED
    BY <2>1
<1>3. ~ flushTook[h]
  BY DEF TookOK
<1>4. \A r \in flushing'[h] : r \in Row /\ command[r.of] = "queued"
  BY <1>2 DEF RowsOK, Row
<1>5. RowsOK' /\ CommandsOK' /\ NoneVanishes'
  BY DEF RowsOK, CommandsOK, NoneVanishes, InQueue
<1>6. FlushesOK'
  <2>1. ASSUME NEW f \in Flushes, NEW r \in flushing'[f]
        PROVE  /\ r \in Row /\ command[r.of] = "queued"
               /\ \A q \in queued : r.id = q.id <=> r.of = q.of
    <3>1. CASE f = h
      BY <1>2, <1>4, <3>1 DEF RowsOK
    <3>2. CASE f # h
      BY <1>1, <3>2 DEF FlushesOK
    <3> QED
      BY <3>1, <3>2
  <2>2. ASSUME NEW f \in Flushes, NEW g \in Flushes, NEW r \in flushing'[f], NEW q \in flushing'[g]
        PROVE  r.id = q.id <=> r.of = q.of
    <3>1. CASE g = h
      BY <1>2, <2>1, <3>1
    <3>2. CASE f = h
      BY <1>2, <2>1, <3>2
    <3>3. CASE f # h /\ g # h
      BY <1>1, <3>3 DEF FlushesOK
    <3> QED
      BY <3>1, <3>2, <3>3
  <2>3. Row' = Row
    BY DEF Row
  <2> QED
    BY <2>1, <2>2, <2>3 DEF FlushesOK
<1>7. \A f \in Flushes \ {h} : Current(f)' = Current(f)
  BY <1>1 DEF Current
<1>8. TookOK'
  BY <1>1, <1>3, <1>7 DEF TookOK
<1>9. OnceOK'
  <2> SUFFICES ASSUME NEW k \in Listen \ doubtful'
               PROVE  /\ \A f, g \in Flushes : InFlush(k, f)' /\ InFlush(k, g)' => f = g
                      /\ command[k] = "queued" /\ delivered[k] > 0 =>
                           /\ \A f \in Flushes : InFlush(k, f)' => At(k, f)'
                           /\ InQueue(k) => \E f \in Flushes : At(k, f)'
    BY DEF OnceOK, InQueue
  <2>1. k \in Listen \ doubtful
    OBVIOUS
  <2>2. \A f \in Flushes \ {h} : InFlush(k, f)' <=> InFlush(k, f)
    BY <1>1 DEF InFlush
  <2>3. \A f \in Flushes : At(k, f)' <=> At(k, f)
    BY <1>3, <1>7 DEF At
  <2>4. CASE InFlush(k, h)'
    <3>1. \A f \in Flushes : ~ InFlush(k, f)
      BY <2>4
    <3>2. InQueue(k)
      BY <1>2, <2>4 DEF InFlush, InQueue
    <3>3. \A f \in Flushes : ~ At(k, f)
      BY <3>1, CurrentIsRead DEF At, InFlush, TookOK
    <3> QED
      BY <2>1, <2>2, <2>3, <3>1, <3>2, <3>3 DEF OnceOK
  <2>5. CASE ~ InFlush(k, h)'
    BY <2>1, <2>2, <2>3, <2>5 DEF OnceOK
  <2> QED
    BY <2>4, <2>5
<1> QED
  BY <1>5, <1>6, <1>8, <1>9

(* The service takes the listen of a row that one flush only has read.     *)
LEMMA FlushTakesKeeps ==
  ASSUME QInv, NEW h \in Flushes, FlushedListenTaken(h)
  PROVE  QInv'
<1> USE DEF QInv, FlushedListenTaken, Taken
<1> DEFINE l == Current(h).of
<1>1. l \in Listen /\ command[l] = "queued" /\ InFlush(l, h)
  BY CurrentIsRead DEF InFlush
<1>2. /\ delivered'[l] > 0 /\ (delivered[l] = 0 => delivered'[l] = 1)
      /\ \A k \in Listen \ {l} : delivered'[k] = delivered[k]
      /\ \A k \in Listen : delivered[k] > 0 => delivered'[k] > 0
  BY <1>1 DEF CommandsOK
<1>3. \A f \in Flushes : Current(f)' = Current(f)
  BY DEF Current
<1>4. flushTook'[h] /\ \A f \in Flushes \ {h} : flushTook'[f] = flushTook[f]
  BY DEF CommandsOK
<1>5. RowsOK' /\ FlushesOK' /\ CommandsOK'
  <2>1. RowsOK'
    BY DEF RowsOK
  <2>3. CommandsOK'
    BY <1>1 DEF CommandsOK
  <2>2. Row' = Row
    BY DEF Row
  <2> QED
    BY <2>1, <2>2, <2>3 DEF FlushesOK
<1>6. NoneVanishes'
  BY <1>2 DEF NoneVanishes, InQueue
<1>7. TookOK'
  <2> SUFFICES ASSUME NEW f \in Flushes, flushTook'[f]
               PROVE  flushing[f] # {} /\ delivered'[Current(f).of] > 0
    BY <1>3 DEF TookOK
  <2>1. CASE f = h
    BY <1>2, <2>1
  <2>2. CASE f # h
    <3>1. flushing[f] # {} /\ delivered[Current(f).of] > 0
      BY <1>4, <2>2 DEF TookOK
    <3> QED
      BY <1>2, <3>1, CurrentIsRead
  <2> QED
    BY <2>1, <2>2
<1>8. OnceOK'
  <2> SUFFICES ASSUME NEW k \in Listen \ doubtful
               PROVE  /\ delivered'[k] <= 1
                      /\ command[k] \in {"no", "sending"} => delivered'[k] = 0
                      /\ \A f, g \in Flushes : InFlush(k, f) /\ InFlush(k, g) => f = g
                      /\ command[k] = "queued" /\ delivered'[k] > 0 =>
                           /\ \A f \in Flushes : InFlush(k, f) => At(k, f)'
                           /\ InQueue(k) => \E f \in Flushes : At(k, f)'
    BY DEF OnceOK, InFlush, InQueue
  <2>1. CASE k = l
    <3>1. ~ At(l, h)
      BY DEF At
    <3>2. delivered[l] = 0
      BY <1>1, <2>1, <3>1 DEF OnceOK, CommandsOK
    <3>3. At(k, h)'
      BY <1>3, <1>4, <2>1 DEF At
    <3>4. \A f \in Flushes : InFlush(l, f) => f = h
      BY <1>1, <2>1 DEF OnceOK
    <3>5. delivered'[l] <= 1 /\ command[l] \notin {"no", "sending"}
      BY <1>1, <1>2, <3>2
    <3>6. \A f \in Flushes : InFlush(k, f) => At(k, f)'
      BY <2>1, <3>3, <3>4
    <3> QED
      BY <2>1, <3>3, <3>4, <3>5, <3>6
  <2>2. CASE k # l
    <3>1. \A f \in Flushes : At(k, f)' <=> At(k, f)
      BY <1>3, <1>4, <2>2 DEF At
    <3> QED
      BY <1>2, <2>2, <3>1 DEF OnceOK
  <2> QED
    BY <2>1, <2>2
<1> QED
  BY <1>5, <1>6, <1>7, <1>8

(* A flush learns what became of the row it was at.                        *)
LEMMA FlushAnsweredKeeps ==
  ASSUME QInv, NEW h \in Flushes, NEW ok \in BOOLEAN, FlushAnswered(h, ok)
  PROVE  QInv'
<1> USE DEF QInv, FlushAnswered
<1> DEFINE c == Current(h)
<1>1. c \in flushing[h] /\ c \in Row /\ c.of \in Listen
  BY CurrentIsRead
<1>2. /\ flushing'[h] = flushing[h] \ {c} /\ ~ flushTook'[h]
      /\ \A f \in Flushes \ {h} : flushing'[f] = flushing[f] /\ flushTook'[f] = flushTook[f]
      /\ \A f \in Flushes : flushing'[f] \subseteq flushing[f]
  BY DEF CommandsOK
<1>3. \A f \in Flushes \ {h} : Current(f)' = Current(f)
  BY <1>2 DEF Current
<1>4. \A q \in queued : q.id = c.id <=> q.of = c.of
  BY <1>1 DEF FlushesOK
<1>5. queued' \subseteq [id : 1..lastId, of : Listen, attempts : Nat]
  <2>1. ASSUME NEW r \in queued
        PROVE  [r EXCEPT !.attempts = @ + 1] \in [id : 1..lastId, of : Listen, attempts : Nat]
    BY DEF RowsOK
  <2> QED
    BY <2>1 DEF RowsOK, RowsAfter
<1>6. \A r \in queued' : \E q \in queued : r.id = q.id /\ r.of = q.of
  BY DEF RowsOK, RowsAfter
<1>7. RowsOK'
  BY <1>5, <1>6 DEF RowsOK
<1>8. FlushesOK'
  <2>1. Row' = Row
    BY DEF Row
  <2>2. ASSUME NEW f \in Flushes, NEW r \in flushing'[f]
        PROVE  /\ r \in Row /\ command[r.of] = "queued"
               /\ \A q \in queued' : r.id = q.id <=> r.of = q.of
    BY <1>2, <1>6 DEF FlushesOK
  <2> QED
    BY <1>2, <2>1, <2>2 DEF FlushesOK
<1>9. CommandsOK'
  BY DEF CommandsOK
<1>10. TookOK'
  BY <1>2, <1>3 DEF TookOK
<1>11. NoneVanishes'
  <2> SUFFICES ASSUME NEW k \in Listen, command[k] = "queued", delivered[k] <= 0
               PROVE  InQueue(k)'
    BY DEF NoneVanishes, CommandsOK
  <2>1. PICK q \in queued : q.of = k
    BY DEF NoneVanishes, InQueue, CommandsOK
  <2>2. CASE queued' = queued
    BY <2>1, <2>2 DEF InQueue
  <2>3. CASE queued' = RowsAfter(c.id, ok) /\ ok
    <3>1. delivered[c.of] > 0
      BY <2>3 DEF TookOK
    <3>2. q.id # c.id
      BY <1>4, <2>1, <3>1 DEF CommandsOK
    <3> QED
      BY <2>1, <2>3, <3>2 DEF RowsAfter, InQueue
  <2>4. CASE queued' = RowsAfter(c.id, ok) /\ ~ ok
    <3> DEFINE r == IF q.id = c.id THEN [q EXCEPT !.attempts = @ + 1] ELSE q
    <3>1. r \in queued'
      BY <2>4 DEF RowsAfter
    <3>2. r.of = k
      BY <2>1 DEF RowsOK
    <3> QED
      BY <3>1, <3>2 DEF InQueue
  <2> QED
    BY <2>2, <2>3, <2>4
<1>12. OnceOK'
  <2> SUFFICES ASSUME NEW k \in Listen \ doubtful'
               PROVE  /\ \A f, g \in Flushes : InFlush(k, f)' /\ InFlush(k, g)' => f = g
                      /\ command[k] = "queued" /\ delivered[k] > 0 =>
                           /\ \A f \in Flushes : InFlush(k, f)' => At(k, f)'
                           /\ InQueue(k)' => \E f \in Flushes : At(k, f)'
    BY DEF OnceOK
  <2>1. k \in Listen \ doubtful
    OBVIOUS
  <2>2. \A f \in Flushes : InFlush(k, f)' => InFlush(k, f)
    BY <1>2 DEF InFlush
  <2>3. InFlush(k, h)' => k # c.of
    <3>1. ASSUME NEW r \in flushing'[h], r.of = c.of PROVE FALSE
      <4>1. r \in flushing[h] /\ r # c
        BY <1>2
      <4>2. r \in Row /\ r.id = c.id
        BY <1>1, <3>1, <4>1 DEF FlushesOK
      <4> QED
        BY <1>1, <3>1, <4>1, <4>2 DEF Row
    <3> QED
      BY <3>1 DEF InFlush
  <2>4. \A f \in Flushes \ {h} : At(k, f) => At(k, f)'
    BY <1>2, <1>3 DEF At
  <2>5. InQueue(k)' => InQueue(k)
    BY <1>6 DEF InQueue
  <2>6. InQueue(k)' => ~ At(k, h)
    <3> SUFFICES ASSUME At(k, h) PROVE ~ InQueue(k)'
      OBVIOUS
    <3>1. flushTook[h] /\ k = c.of
      BY DEF At
    <3>2. ok /\ queued' # queued
      BY <3>1
    <3>3. queued' = {r \in queued : r.id # c.id}
      BY <3>2 DEF RowsAfter
    <3> QED
      BY <1>4, <3>1, <3>3 DEF InQueue
  <2>7. ASSUME command[k] = "queued", delivered[k] > 0, NEW f \in Flushes, InFlush(k, f)'
        PROVE  At(k, f)'
    <3>1. At(k, f)
      BY <2>1, <2>2, <2>7 DEF OnceOK
    <3>2. f # h
      BY <2>3, <2>7, <3>1 DEF At
    <3> QED
      BY <2>4, <3>1, <3>2
  <2>8. ASSUME command[k] = "queued", delivered[k] > 0, InQueue(k)'
        PROVE  \E f \in Flushes : At(k, f)'
    <3>1. PICK f \in Flushes : At(k, f)
      BY <2>1, <2>5, <2>8 DEF OnceOK
    <3> QED
      BY <2>4, <2>6, <2>8, <3>1
  <2>9. \A f, g \in Flushes : InFlush(k, f)' /\ InFlush(k, g)' => f = g
    BY <2>1, <2>2 DEF OnceOK
  <2> QED
    BY <2>7, <2>8, <2>9
<1> QED
  BY <1>7, <1>8, <1>9, <1>10, <1>11, <1>12

(* The program ends and starts again.                                      *)
LEMMA RestartKeeps ==
  ASSUME QInv, RestartBackend
  PROVE  QInv'
<1> USE DEF QInv, RestartBackend
<1>1. \A k \in Listen : /\ command[k] = "queued" <=> command'[k] = "queued"
                        /\ command'[k] \in {"no", "sending"} => command[k] \in {"no", "sending"}
  BY DEF CommandsOK
<1>2. \A f \in Flushes : flushing'[f] = {} /\ ~ flushTook'[f]
  OBVIOUS
<1>3. RowsOK'
  BY <1>1 DEF RowsOK
<1>4. FlushesOK' /\ CommandsOK' /\ TookOK'
  BY <1>2 DEF FlushesOK, CommandsOK, TookOK
<1>5. NoneVanishes'
  BY <1>1 DEF NoneVanishes, InQueue
<1>6. OnceOK'
  <2> SUFFICES ASSUME NEW k \in Listen \ doubtful'
               PROVE  /\ delivered[k] <= 1
                      /\ command'[k] \in {"no", "sending"} => delivered[k] = 0
                      /\ command'[k] = "queued" /\ delivered[k] > 0 => ~ InQueue(k)
    BY <1>2 DEF OnceOK, InFlush, InQueue
  <2>1. k \in Listen \ doubtful
    OBVIOUS
  <2>2. \A f \in Flushes : ~ At(k, f)
    BY DEF At
  <2> QED
    BY <1>1, <2>1, <2>2 DEF OnceOK
<1> QED
  BY <1>3, <1>4, <1>5, <1>6

\* Every command and every flush keeps QInv.
LEMMA RowsStep == QInv /\ [ScrobbleQueueNext]_queueVars => QInv'
<1> SUFFICES ASSUME QInv, [ScrobbleQueueNext]_queueVars PROVE QInv'
  OBVIOUS
<1>1. ASSUME NEW l \in Listen,
             SubmitListen(l) \/ ServiceTakes(l) \/ SubmitSucceeds(l) \/ SubmitFails(l)
      PROVE  QInv'
  <2>1. CASE SubmitListen(l)
    BY <2>1, CommandKeeps DEF SubmitListen
  <2>2. CASE ServiceTakes(l)
    BY <2>2, CommandKeeps DEF ServiceTakes
  <2>3. CASE SubmitSucceeds(l)
    BY <2>3, CommandKeeps DEF SubmitSucceeds
  <2>4. CASE SubmitFails(l) /\ Becomes(l, "lost")
    <3>1. command[l] # "queued" /\ doubtful \subseteq doubtful'
      BY <2>4 DEF SubmitFails
    <3>2. UNCHANGED <<queued, lastId, flushing, flushTook, delivered>>
      BY <2>4 DEF SubmitFails, Becomes, QInv, CommandsOK
    <3> QED
      BY <2>4, <3>1, <3>2, CommandKeeps
  <2>5. CASE SubmitFails(l) /\ Becomes(l, "queued")
    <3>1. /\ lastId' = lastId + 1
          /\ queued' = queued \cup {[id |-> lastId', of |-> l, attempts |-> 0]}
      BY <2>5 DEF SubmitFails, Becomes, QInv, CommandsOK
    <3> QED
      BY <2>5, <3>1, QueueAddKeeps DEF SubmitFails
  <2> QED
    BY <1>1, <2>1, <2>2, <2>3, <2>4, <2>5 DEF SubmitFails
<1>2. CASE UNCHANGED queueVars
  <2> USE <1>2 DEF queueVars, QInv
  <2>1. RowsOK' /\ CommandsOK' /\ NoneVanishes'
    BY DEF RowsOK, CommandsOK, NoneVanishes, InQueue
  <2>2. FlushesOK' /\ TookOK'
    BY DEF FlushesOK, Row, TookOK, Current
  <2>3. OnceOK'
    <3>1. \A l : /\ InQueue(l)' <=> InQueue(l)
                 /\ \A f : (InFlush(l, f)' <=> InFlush(l, f)) /\ (At(l, f)' <=> At(l, f))
      BY DEF InQueue, InFlush, At, Current
    <3>2. UNCHANGED <<delivered, command, doubtful>> /\ Flushes' = Flushes
      BY DEF Flushes
    <3> QED
      BY <3>1, <3>2 DEF OnceOK
  <2> QED
    BY <2>1, <2>2, <2>3
<1> QED
  BY <1>1, <1>2, StartFlushKeeps, FlushTakesKeeps, FlushAnsweredKeeps, RestartKeeps
  DEF ScrobbleQueueNext

\* scrobble.rs: QInv in every reachable state: a queued listen has its row or was taken;
\* and unless it is doubtful one flush at most has it, and none that is still to send it
\* when it was taken.
THEOREM QueueInvariance == ScrobbleQueueSpec => []QInv
<1> QED
  BY QueueStart, RowsStep, PTL DEF ScrobbleQueueSpec

\* scrobble.rs: however many flushes overlap, fail or are cut short, and whatever
\* their limits, no queued listen vanishes before a service took it, and none is
\* repeated unless nobody could know that it was taken.
THEOREM QueueLosesNothing == ScrobbleQueueSpec => []QueueDelivers
<1>1. QInv => QueueDelivers
  BY DEF QInv, OnceOK, NoneTwice, QueueDelivers
<1> QED
  BY <1>1, QueueInvariance, PTL

-----------------------------------------------------------------------------
\* What holds of the switches and badges while r is the only request.
Meanwhile(r) ==
  /\ r.step \in {"connect", "logout", "flush"} =>
       switchedOn = credentials /\ (settingsVisible => badges = credentials)
  /\ r.step = "connected" => switchedOn \cup {r.of} = credentials
  /\ r.step = "loggedOut" => switchedOn \ {r.of} = credentials
  /\ r.step \in {"status", "answer"} =>
       /\ switchedOn = credentials
       /\ r.of = ListenBrainz => (Lastfm \in badges <=> Lastfm \in credentials)
  /\ r.step = "answer" => (r.yes <=> r.of \in credentials)

SettingsRequest == [step : Steps, of : Accounts, yes : BOOLEAN]

\* Nobody logs out of Last.fm, and who has connected to it has its session.
Honest(r) ==
  /\ r.step \in {"logout", "loggedOut"} => r.of = ListenBrainz
  /\ r.step = "flush" => r.of = Lastfm
  /\ r.step = "connected" /\ r.of = Lastfm => Lastfm \in credentials

AtRest == switchedOn = credentials /\ (settingsVisible => badges = credentials)

SettingsOK ==
  /\ requests \in Seq(SettingsRequest) /\ settingsCrossed \in BOOLEAN /\ settingsVisible \in BOOLEAN
  /\ credentials \subseteq Accounts /\ switchedOn \subseteq Accounts /\ badges \subseteq Accounts
  /\ Lastfm \in switchedOn => Lastfm \in credentials
  /\ \A i \in DOMAIN requests : Honest(requests[i])
  /\ ~ settingsCrossed =>
       /\ Len(requests) <= 1
       /\ requests = <<>> => AtRest
       /\ \A i \in DOMAIN requests : Meanwhile(requests[i])

(* The panel starts in agreement with the backend.                         *)
LEMMA SettingsStart == SettingsInit => SettingsOK
<1> SUFFICES ASSUME SettingsInit PROVE SettingsOK
  OBVIOUS
<1>1. requests = <<>> /\ requests \in Seq(SettingsRequest) /\ Len(requests) = 0 /\ DOMAIN requests = {}
  BY DEF SettingsInit
<1>2. /\ settingsCrossed = FALSE /\ settingsVisible = FALSE
      /\ credentials \subseteq Accounts /\ switchedOn = credentials /\ badges = {}
  BY DEF SettingsInit, Accounts
<1>3. AtRest
  BY <1>2 DEF AtRest
<1>4. (Lastfm \in switchedOn => Lastfm \in credentials) /\ Len(requests) <= 1
  BY <1>1, <1>2
<1>5. \A i \in DOMAIN requests : Honest(requests[i]) /\ Meanwhile(requests[i])
  BY <1>1
<1> QED
  BY <1>1, <1>2, <1>3, <1>4, <1>5 DEF SettingsOK

(* A request goes on; if it is the only one, it fits what it finds.        *)
LEMMA GoesOn ==
  ASSUME SettingsOK, NEW i \in DOMAIN requests, NEW q \in SettingsRequest,
         requests' = [requests EXCEPT ![i] = q],
         credentials' \subseteq Accounts, switchedOn' \subseteq Accounts, badges' \subseteq Accounts,
         settingsCrossed' \in BOOLEAN, settingsVisible' = settingsVisible,
         Lastfm \in credentials => Lastfm \in credentials',
         Lastfm \in switchedOn' => Lastfm \in credentials',
         Honest(q)',
         ~ settingsCrossed' => ~ settingsCrossed,
         ~ settingsCrossed' /\ Meanwhile(requests[i]) => Meanwhile(q)'
  PROVE  SettingsOK'
<1> USE DEF SettingsOK
<1>1. /\ requests' \in Seq(SettingsRequest) /\ Len(requests') = Len(requests)
      /\ DOMAIN requests' = DOMAIN requests /\ requests'[i] = q
      /\ \A j \in DOMAIN requests \ {i} : requests'[j] = requests[j]
  OBVIOUS
<1>2. \A j \in DOMAIN requests' : Honest(requests[j])'
  BY <1>1 DEF Honest
<1>3. ASSUME ~ settingsCrossed'
      PROVE  /\ Len(requests') <= 1 /\ requests' # <<>>
             /\ \A j \in DOMAIN requests' : Meanwhile(requests[j])'
  <2>1. Len(requests') <= 1 /\ requests' # <<>>
    BY <1>1, <1>3
  <2>2. DOMAIN requests' = {i}
    BY <1>1, <2>1
  <2>3. Meanwhile(q)'
    BY <1>3
  <2> QED
    BY <1>1, <2>1, <2>2, <2>3 DEF Meanwhile
<1> QED
  BY <1>1, <1>2, <1>3

(* A request is over.                                                      *)
LEMMA IsOver ==
  ASSUME SettingsOK, NEW i \in DOMAIN requests, requests' = RemoveAt(requests, i),
         UNCHANGED <<credentials, switchedOn, settingsVisible>>, badges' \subseteq Accounts,
         settingsCrossed' \in BOOLEAN, ~ settingsCrossed' => ~ settingsCrossed,
         ~ settingsCrossed' /\ Meanwhile(requests[i]) => AtRest'
  PROVE  SettingsOK'
<1> USE DEF SettingsOK
<1>1. /\ requests' \in Seq(SettingsRequest)
      /\ \A j \in DOMAIN requests' : \E k \in DOMAIN requests : requests'[j] = requests[k]
      /\ Len(requests) <= 1 => requests' = <<>>
  <2>1. requests \in Seq(SettingsRequest)
    OBVIOUS
  <2> QED
    BY <2>1, OneLess
<1>2. \A j \in DOMAIN requests' : Honest(requests[j])'
  BY <1>1 DEF Honest
<1>3. ASSUME ~ settingsCrossed' PROVE requests' = <<>> /\ AtRest'
  BY <1>1, <1>3
<1> QED
  BY <1>1, <1>2, <1>3

(* A request begins; if it is the only one, it fits what it finds.         *)
LEMMA BeginsToAsk ==
  ASSUME SettingsOK, NEW step \in Steps, NEW s \in Accounts, Asks(step, s),
         UNCHANGED <<credentials, switchedOn, badges>>, settingsVisible' \in BOOLEAN,
         Honest(RequestFor(step, s))',
         AtRest => Meanwhile(RequestFor(step, s))'
  PROVE  SettingsOK'
<1> USE DEF SettingsOK
<1> DEFINE q == RequestFor(step, s)
<1>1. q \in SettingsRequest
  BY DEF SettingsRequest, RequestFor
<1> HIDE DEF q
<1>2. requests' = Append(requests, q) /\ settingsCrossed' = (settingsCrossed \/ requests # <<>>)
  BY DEF Asks, q
<1>3. /\ requests' \in Seq(SettingsRequest) /\ Len(requests') = Len(requests) + 1 /\ requests' # <<>>
      /\ requests'[Len(requests) + 1] = q /\ DOMAIN requests' = 1..(Len(requests) + 1)
      /\ \A j \in DOMAIN requests : requests'[j] = requests[j]
      /\ DOMAIN requests = 1..Len(requests) /\ Len(requests) \in Nat
  BY <1>1, <1>2
<1>4. Honest(q)' /\ (AtRest => Meanwhile(q)')
  BY DEF q
<1>5. \A j \in DOMAIN requests' : Honest(requests[j])'
  <2> TAKE j \in DOMAIN requests'
  <2>1. j \in DOMAIN requests \/ j = Len(requests) + 1
    BY <1>3
  <2> QED
    BY <1>3, <1>4, <2>1 DEF Honest
<1>6. ASSUME ~ settingsCrossed'
      PROVE  /\ Len(requests') <= 1
             /\ \A j \in DOMAIN requests' : Meanwhile(requests[j])'
  <2>1. requests = <<>> /\ ~ settingsCrossed
    BY <1>2, <1>6
  <2>2. Len(requests) = 0 /\ AtRest
    BY <2>1
  <2>3. DOMAIN requests' = {1} /\ requests'[1] = q /\ Len(requests') = 1
    BY <1>3, <2>2
  <2>4. Meanwhile(q)'
    BY <1>4, <2>2
  <2> QED
    BY <2>3, <2>4 DEF Meanwhile
<1>7. settingsCrossed' \in BOOLEAN
  BY <1>2
<1> QED
  BY <1>3, <1>5, <1>6, <1>7

(* What the handlers of the panel do.                                      *)
LEMMA PanelKeeps ==
  ASSUME SettingsOK, ToggleSettings \/ ClickSettings \/ SaveKeys
  PROVE  SettingsOK'
<1>1. CASE ToggleSettings /\ settingsVisible
  <2>1. settingsVisible' = FALSE
        /\ UNCHANGED <<requests, settingsCrossed, credentials, switchedOn, badges>>
    BY <1>1 DEF ToggleSettings, SettingsOK
  <2> QED
    BY <2>1 DEF SettingsOK, AtRest, Honest, Meanwhile
<1>2. CASE ToggleSettings /\ ~ settingsVisible
  <2>1. Asks("status", Lastfm) /\ UNCHANGED <<credentials, switchedOn, badges>>
        /\ settingsVisible' \in BOOLEAN
    BY <1>2 DEF ToggleSettings
  <2>2. Honest(RequestFor("status", Lastfm))'
    BY DEF Honest, RequestFor
  <2>3. AtRest => Meanwhile(RequestFor("status", Lastfm))'
    BY <2>1 DEF AtRest, Meanwhile, RequestFor, Lastfm, ListenBrainz
  <2>4. "status" \in Steps /\ Lastfm \in Accounts
    BY DEF Steps, Accounts
  <2> QED
    BY <2>1, <2>2, <2>3, <2>4, BeginsToAsk
<1>3. CASE ClickSettings
  <2>1. UNCHANGED <<settingsVisible, credentials, switchedOn, badges>>
    BY <1>3 DEF ClickSettings
  <2>2. PICK step \in {"connect", "logout", "flush"}, s \in Accounts :
          /\ Asks(step, s)
          /\ step = "logout" => s = ListenBrainz
          /\ step = "flush" => s = Lastfm
    BY <1>3 DEF ClickSettings, Accounts
  <2>3. step \in Steps
    BY <2>2 DEF Steps
  <2>4. Honest(RequestFor(step, s))'
    BY <2>2 DEF Honest, RequestFor, Lastfm, ListenBrainz
  <2>5. AtRest => Meanwhile(RequestFor(step, s))'
    BY <2>1, <2>2 DEF AtRest, Meanwhile, RequestFor
  <2>6. settingsVisible' \in BOOLEAN
    BY <2>1 DEF SettingsOK
  <2> QED
    BY <2>1, <2>2, <2>3, <2>4, <2>5, <2>6, BeginsToAsk
<1>4. CASE SaveKeys
  BY <1>4 DEF SaveKeys, SettingsOK, AtRest, Honest, Meanwhile
<1> QED
  BY <1>1, <1>2, <1>3, <1>4

(* What the backend does for a request.                                    *)
LEMMA BackendKeeps ==
  ASSUME SettingsOK, NEW i \in DOMAIN requests, BackendDoes(i)
  PROVE  SettingsOK'
<1> DEFINE r == requests[i]
<1>1. r \in SettingsRequest /\ Honest(r)
  BY DEF SettingsOK
<1> HIDE DEF r
<1>2. /\ UNCHANGED <<settingsVisible, switchedOn, badges, settingsCrossed>>
      /\ settingsCrossed \in BOOLEAN /\ switchedOn \subseteq Accounts /\ badges \subseteq Accounts
      /\ credentials \subseteq Accounts /\ (Lastfm \in switchedOn => Lastfm \in credentials)
  BY DEF BackendDoes, SettingsOK
<1>3. CASE /\ r.step = "connect" /\ credentials' = credentials \cup {r.of}
           /\ NextStep(i, "connected")
  <2>a. [r EXCEPT !.step = "connected"] \in SettingsRequest
    BY <1>1 DEF SettingsRequest, Steps
  <2>1. PICK q \in SettingsRequest : q = [r EXCEPT !.step = "connected"]
    BY <2>a
  <2>b. q.step = "connected" /\ q.of = r.of
    BY <1>1, <2>1 DEF SettingsRequest, Steps, Lastfm, ListenBrainz, Accounts
  <2>2. requests' = [requests EXCEPT ![i] = q]
    BY <1>3, <2>1 DEF NextStep, r
  <2>3. credentials' \subseteq Accounts /\ (Lastfm \in credentials => Lastfm \in credentials')
    BY <1>1, <1>2, <1>3 DEF SettingsRequest
  <2>4. Honest(q)' /\ (Meanwhile(r) => Meanwhile(q)')
    BY <1>2, <1>3, <2>b DEF Honest, Meanwhile
  <2> QED
    BY <1>2, <2>1, <2>b, <2>2, <2>3, <2>4, GoesOn DEF r
<1>4. CASE /\ r.step = "logout" /\ credentials' = credentials \ {r.of}
           /\ NextStep(i, "loggedOut")
  <2>a. [r EXCEPT !.step = "loggedOut"] \in SettingsRequest
    BY <1>1, <1>4 DEF SettingsRequest, Steps, Honest
  <2>1. PICK q \in SettingsRequest : q = [r EXCEPT !.step = "loggedOut"]
    BY <2>a
  <2>b. q.step = "loggedOut" /\ q.of = r.of /\ r.of = ListenBrainz
    BY <1>1, <1>4, <2>1 DEF SettingsRequest, Steps, Honest, Lastfm, ListenBrainz, Accounts
  <2>2. requests' = [requests EXCEPT ![i] = q]
    BY <1>4, <2>1 DEF NextStep, r
  <2>3. credentials' \subseteq Accounts /\ (Lastfm \in credentials => Lastfm \in credentials')
    BY <1>2, <1>4, <2>b DEF Lastfm, ListenBrainz
  <2>4. Honest(q)' /\ (Meanwhile(r) => Meanwhile(q)')
    BY <1>2, <1>4, <2>b DEF Honest, Meanwhile
  <2> QED
    BY <1>2, <2>1, <2>b, <2>2, <2>3, <2>4, GoesOn DEF r
<1>5. CASE r.step = "flush" /\ UNCHANGED credentials /\ NextStep(i, "status") /\ r.of = Lastfm
  <2>a. [r EXCEPT !.step = "status"] \in SettingsRequest
    BY <1>1, <1>5 DEF SettingsRequest, Steps, Honest
  <2>1. PICK q \in SettingsRequest : q = [r EXCEPT !.step = "status"]
    BY <2>a
  <2>b. q.step = "status" /\ q.of = Lastfm
    BY <1>1, <1>5, <2>1 DEF SettingsRequest, Steps, Honest, Lastfm, ListenBrainz, Accounts
  <2>2. requests' = [requests EXCEPT ![i] = q]
    BY <1>5, <2>1 DEF NextStep, r
  <2>4. Honest(q)' /\ (Meanwhile(r) => Meanwhile(q)')
    BY <1>2, <1>5, <2>b DEF Honest, Meanwhile, Lastfm, ListenBrainz
  <2> QED
    BY <1>2, <1>5, <2>1, <2>2, <2>4, GoesOn DEF r
<1>6. CASE /\ r.step = "status" /\ UNCHANGED credentials
           /\ requests' = [requests EXCEPT ![i].step = "answer", ![i].yes = r.of \in credentials]
  <2>5. PICK shown \in BOOLEAN : shown = (r.of \in credentials)
    <3>1. (r.of \in credentials) \in BOOLEAN
      OBVIOUS
    <3> QED
      BY <3>1, Zenon
  <2>a. [r EXCEPT !.step = "answer", !.yes = shown] \in SettingsRequest
    BY <1>1 DEF SettingsRequest, Steps
  <2>1. PICK q \in SettingsRequest : q = [r EXCEPT !.step = "answer", !.yes = r.of \in credentials]
    BY <2>a, <2>5
  <2>b. q.step = "answer" /\ q.of = r.of /\ (q.yes <=> r.of \in credentials)
    BY <1>1, <2>1 DEF SettingsRequest, Steps, Lastfm, ListenBrainz, Accounts
  <2>2. requests' = [requests EXCEPT ![i] = q]
    BY <1>6, <2>1 DEF r
  <2>4. Honest(q)' /\ (Meanwhile(r) => Meanwhile(q)')
    BY <1>2, <1>6, <2>b DEF Honest, Meanwhile
  <2> QED
    BY <1>2, <1>6, <2>1, <2>2, <2>4, GoesOn DEF r
<1>7. r.step = "flush" => r.of = Lastfm
  BY <1>1 DEF Honest
<1> QED
  BY <1>3, <1>4, <1>5, <1>6, <1>7 DEF BackendDoes, r

(* What the panel does when it hears from the backend.                     *)
LEMMA AnswerKeeps ==
  ASSUME SettingsOK, NEW i \in DOMAIN requests, Connected(i) \/ BadgeShown(i) \/ RequestFails(i)
  PROVE  SettingsOK'
<1> DEFINE r == requests[i]
<1>1. r \in SettingsRequest /\ Honest(r)
  BY DEF SettingsOK
<1> HIDE DEF r
<1>2. /\ UNCHANGED <<settingsVisible, credentials>>
      /\ settingsCrossed' \in BOOLEAN /\ (~ settingsCrossed' => ~ settingsCrossed)
      /\ badges' \subseteq Accounts /\ switchedOn' \subseteq Accounts
    BY <1>1 DEF Connected, BadgeShown, RequestFails, SettingsOK, SwitchAfter, SettingsRequest, r
<1>3. /\ switchedOn \subseteq Accounts /\ badges \subseteq Accounts
      /\ credentials \subseteq Accounts /\ (Lastfm \in switchedOn => Lastfm \in credentials)
  BY DEF SettingsOK
<1>4. /\ RequestFor("status", Lastfm) \in SettingsRequest
      /\ RequestFor("status", ListenBrainz) \in SettingsRequest
      /\ Lastfm # ListenBrainz /\ Accounts = {Lastfm, ListenBrainz}
  BY DEF SettingsRequest, RequestFor, Steps, Accounts, Lastfm, ListenBrainz
<1>5. Honest(RequestFor("status", Lastfm))' /\ Honest(RequestFor("status", ListenBrainz))'
  BY DEF Honest, RequestFor
<1>6. CASE Connected(i)
  <2>1. /\ r.step \in {"connected", "loggedOut"} /\ switchedOn' = SwitchAfter(r)
        /\ requests' = [requests EXCEPT ![i] = RequestFor("status", Lastfm)]
        /\ UNCHANGED badges
    BY <1>6 DEF Connected, r
  <2>2. Lastfm \in switchedOn' => Lastfm \in credentials'
    BY <1>1, <1>2, <1>3, <1>4, <2>1 DEF SwitchAfter, Honest
  <2>3. Meanwhile(r) => Meanwhile(RequestFor("status", Lastfm))'
    BY <1>2, <1>4, <2>1 DEF Meanwhile, SwitchAfter, RequestFor
  <2> QED
    BY <1>2, <1>3, <1>4, <1>5, <2>1, <2>2, <2>3, GoesOn DEF r
<1>7. CASE BadgeShown(i)
  <2>1. /\ r.step = "answer" /\ UNCHANGED <<switchedOn, settingsCrossed>>
        /\ badges' = IF r.yes THEN badges \cup {r.of} ELSE badges \ {r.of}
        /\ requests' = IF r.of = Lastfm
                       THEN [requests EXCEPT ![i] = RequestFor("status", ListenBrainz)]
                       ELSE RemoveAt(requests, i)
    BY <1>7 DEF BadgeShown, r
  <2>2. Meanwhile(r) => /\ switchedOn = credentials
                        /\ r.of \in badges' <=> r.of \in credentials
    BY <2>1 DEF Meanwhile
  <2>3. CASE r.of = Lastfm
    <3>1. Meanwhile(r) => Meanwhile(RequestFor("status", ListenBrainz))'
      BY <1>2, <1>4, <2>1, <2>2, <2>3 DEF Meanwhile, RequestFor
    <3> QED
      BY <1>2, <1>3, <1>4, <1>5, <2>1, <2>3, <3>1, GoesOn DEF r
  <2>4. CASE r.of # Lastfm
    <3>1. r.of = ListenBrainz
      BY <1>1, <1>4, <2>4 DEF SettingsRequest
    <3>2. Meanwhile(r) => (Lastfm \in badges <=> Lastfm \in credentials)
      BY <2>1, <3>1 DEF Meanwhile
    <3>3. Meanwhile(r) => (Lastfm \in badges' <=> Lastfm \in credentials)
      BY <1>4, <2>1, <3>1, <3>2
    <3>4. Meanwhile(r) => badges' = credentials
      BY <1>2, <1>3, <1>4, <2>2, <3>1, <3>3
    <3>5. Meanwhile(r) => AtRest'
      BY <1>2, <2>1, <2>2, <3>4 DEF AtRest
    <3> QED
      BY <1>2, <2>1, <2>4, <3>5, IsOver DEF r
  <2> QED
    BY <2>3, <2>4
<1>8. CASE RequestFails(i)
  <2>1. /\ r.step \in {"connect", "connected", "logout", "flush", "status"}
        /\ UNCHANGED <<switchedOn, badges>>
        /\ requests' = IF r.step = "status" /\ r.of = Lastfm
                       THEN [requests EXCEPT ![i] = RequestFor("status", ListenBrainz)]
                       ELSE RemoveAt(requests, i)
        /\ settingsCrossed' = (settingsCrossed \/ r.step \in {"connected", "status"})
    BY <1>8 DEF RequestFails, r
  <2>2. CASE r.step = "status" /\ r.of = Lastfm
    <3>1. settingsCrossed'
      BY <2>1, <2>2
    <3> QED
      BY <1>2, <1>3, <1>4, <1>5, <2>1, <2>2, <3>1, GoesOn DEF r
  <2>3. CASE ~ (r.step = "status" /\ r.of = Lastfm)
    <3>1. ~ settingsCrossed' /\ Meanwhile(r) => AtRest'
      BY <1>2, <2>1 DEF Meanwhile, AtRest
    <3> QED
      BY <1>2, <2>1, <2>3, <3>1, IsOver DEF r
  <2> QED
    BY <2>2, <2>3
<1> QED
  BY <1>6, <1>7, <1>8

(* After a restart nothing is under way; unless a handler was cut off before *)
(* its switch, the switches were those of the accounts and stay so.        *)
LEMMA CutOffKeeps ==
  ASSUME SettingsOK, RestartSettings
  PROVE  SettingsOK'
<1> USE DEF SettingsOK
<1>1. /\ settingsVisible' = FALSE /\ badges' = {} /\ requests' = <<>>
      /\ UNCHANGED <<credentials, switchedOn>> /\ settingsCrossed' \in BOOLEAN
      /\ ~ settingsCrossed' =>
           /\ ~ settingsCrossed
           /\ \A i \in DOMAIN requests : ~ (requests[i].step \in {"connected", "loggedOut"})
  BY DEF RestartSettings
<1>2. /\ requests' \in Seq(SettingsRequest) /\ Len(requests') = 0 /\ DOMAIN requests' = {}
      /\ badges' \subseteq Accounts
  BY <1>1
<1>3. ASSUME ~ settingsCrossed' PROVE AtRest'
  <2>1. CASE requests = <<>>
    BY <1>1, <1>3, <2>1 DEF AtRest
  <2>2. CASE requests # <<>>
    <3>1. 1 \in DOMAIN requests
      BY <2>2
    <3>2. Meanwhile(requests[1]) /\ requests[1] \in SettingsRequest
      BY <1>1, <1>3, <3>1
    <3>3. requests[1].step \in Steps /\ requests[1].step \notin {"connected", "loggedOut"}
      BY <1>1, <1>3, <3>1, <3>2 DEF SettingsRequest
    <3>4. switchedOn = credentials
      BY <3>2, <3>3 DEF Meanwhile, Steps
    <3> QED
      BY <1>1, <3>4 DEF AtRest
  <2> QED
    BY <2>1, <2>2
<1>4. (\A i \in DOMAIN requests : Honest(requests[i]))' /\ (\A i \in DOMAIN requests : Meanwhile(requests[i]))'
  BY <1>2
<1>5. (Lastfm \in switchedOn => Lastfm \in credentials)' /\ Len(requests') <= 1
  BY <1>1, <1>2
<1>6. settingsVisible' \in BOOLEAN /\ credentials' \subseteq Accounts /\ switchedOn' \subseteq Accounts
  BY <1>1
<1> QED
  BY <1>1, <1>2, <1>3, <1>4, <1>5, <1>6

(* Every step of the panel and of the backend keeps SettingsOK.            *)
LEMMA SettingsStep == SettingsOK /\ [SettingsNext]_settingsVars => SettingsOK'
<1> SUFFICES ASSUME SettingsOK, [SettingsNext]_settingsVars PROVE SettingsOK'
  OBVIOUS
<1>1. CASE UNCHANGED settingsVars
  BY <1>1 DEF settingsVars, SettingsOK, AtRest, Honest, Meanwhile
<1> QED
  BY <1>1, PanelKeeps, BackendKeeps, AnswerKeeps, CutOffKeeps DEF SettingsNext

\* ScrobbleSettings.ts, ScrobbleFeature.ts: whatever overlaps or fails, Last.fm is
\* switched on only with a session stored; and when nothing overlapped, the
\* switches and the badges agree with the backend as soon as nothing is under way.
THEOREM SwitchesAreTrue == SettingsSpec => []SwitchesMatchAccounts
<1>1. SettingsOK => SwitchesMatchAccounts
  <2> SUFFICES ASSUME SettingsOK PROVE SwitchesMatchAccounts
    OBVIOUS
  <2>1. Lastfm \in switchedOn => Lastfm \in credentials
    BY DEF SettingsOK
  <2>2. requests = <<>> /\ ~ settingsCrossed => AtRest
    BY DEF SettingsOK
  <2> QED
    BY <2>1, <2>2 DEF SwitchesMatchAccounts, AtRest
<1> QED
  BY <1>1, SettingsStart, SettingsStep, PTL DEF SettingsSpec

-----------------------------------------------------------------------------
(* Types. Those of autoplay are inductive as they stand, those of the      *)
(* prompt and of the settings follow from the invariants above, and those  *)
(* of the listens need that a track that plays has begun.                  *)

(* The smaller and the larger of two numbers, as the code's Math.min and   *)
(* Math.max give them.                                                     *)
LEMMA OfTwo ==
  ASSUME NEW m \in Int, NEW n \in Int
  PROVE  /\ Min({m, n}) = IF m <= n THEN m ELSE n
         /\ Max({m, n}) = IF m >= n THEN m ELSE n
<1> DEFINE low == IF m <= n THEN m ELSE n
           high == IF m >= n THEN m ELSE n
<1>1. /\ low \in {m, n} /\ \A y \in {m, n} : low <= y
      /\ high \in {m, n} /\ \A y \in {m, n} : high >= y
  OBVIOUS
<1>2. \A y \in {m, n} : /\ (\A z \in {m, n} : y <= z) => y = low
                        /\ (\A z \in {m, n} : y >= z) => y = high
  OBVIOUS
<1> HIDE DEF low, high
<1>3. Min({m, n}) = low
  BY <1>1, <1>2 DEF Min
<1>4. Max({m, n}) = high
  BY <1>1, <1>2 DEF Max
<1> QED
  BY <1>3, <1>4 DEF low, high

(* The pool after an answer, and after a batch was taken from it.          *)
LEMMA PoolTyped ==
  ASSUME AutoplayTypeOK, NEW answer, NEW p \in {pool, Added(answer)}
  PROVE  /\ p \in [Track -> 0..MaxCopies]
         /\ \A n : \A S \in Batches(p, n) :
              /\ S \in SUBSET Track
              /\ [x \in Track |-> IF x \in S THEN p[x] - 1 ELSE p[x]] \in [Track -> 0..MaxCopies]
<1>1. MaxCopies \in Nat /\ pool \in [Track -> 0..MaxCopies]
  BY AutoplayAssumption DEF AutoplayTypeOK
<1>2. p \in [Track -> 0..MaxCopies]
  BY <1>1 DEF Added
<1>3. ASSUME NEW n, NEW S \in Batches(p, n)
      PROVE  S \in SUBSET Track /\ \A x \in S : p[x] > 0
  BY DEF Batches
<1> QED
  BY <1>1, <1>2, <1>3

(* What the handlers of a refill have in common.                           *)
LEMMA TakeBatchTyped ==
  ASSUME AutoplayTypeOK, NEW answer, NEW p \in {pool, Added(answer)}, TakeBatch(p)
  PROVE  /\ batch' \in SUBSET Track /\ seen' \in SUBSET Track
         /\ pool' \in [Track -> 0..MaxCopies] /\ refill' \in {"no", "resolve"}
<1>1. PICK S \in Batches(p, QueueSize - queuedAhead) :
        /\ batch' = S /\ seen' = Remembered(S)
        /\ pool' = [x \in Track |-> IF x \in S THEN p[x] - 1 ELSE p[x]]
        /\ refill' = IF S = {} THEN "no" ELSE "resolve"
  BY DEF TakeBatch
<1>2. S \in SUBSET Track
  BY PoolTyped
<1>3. pool' \in [Track -> 0..MaxCopies]
  BY <1>1, PoolTyped
<1> QED
  BY <1>1, <1>2, <1>3 DEF Remembered, AutoplayTypeOK

(* The same of what is appended.                                           *)
LEMMA AppendTyped ==
  ASSUME AutoplayTypeOK, NEW S \in SUBSET Track, AppendAll(S)
  PROVE  /\ list' \in Seq(Track) /\ appended' \in Seq(Track) /\ pos \in 0..Len(list')
         /\ storage' \in [autoplay : BOOLEAN, queue : Seq(Track)]
         /\ queuedAhead' \in Nat /\ lateBatches' \in Nat /\ refill' = "no" /\ batch' = {}
<1>1. PICK entries \in Seq(Track) : entries = SetToSeq(S)
  BY SetToSeqDistinct DEF Distinct
<1>2. Cardinality(S) \in Nat
  BY SetToSeqDistinct
<1>3. /\ list' = list \o entries /\ appended' = appended \o entries
      /\ storage' = [storage EXCEPT !.queue = appended']
      /\ queuedAhead' = queuedAhead + Cardinality(S)
      /\ refill' = "no" /\ batch' = {}
      /\ lateBatches' = IF enabled /\ ~circuitBroken THEN 0 ELSE lateBatches + 1
  BY <1>1 DEF AppendAll
<1>4. list \in Seq(Track) /\ appended \in Seq(Track) /\ pos \in 0..Len(list)
  BY DEF AutoplayTypeOK
<1>5. list' \in Seq(Track) /\ appended' \in Seq(Track) /\ Len(list') = Len(list) + Len(entries)
  BY <1>3, <1>4
<1>6. storage' \in [autoplay : BOOLEAN, queue : Seq(Track)]
  BY <1>3, <1>5 DEF AutoplayTypeOK
<1>7. queuedAhead' \in Nat /\ lateBatches' \in Nat
  <2>1. queuedAhead \in Nat /\ lateBatches \in Nat
    BY DEF AutoplayTypeOK
  <2>2. queuedAhead' = queuedAhead + Cardinality(S) /\ lateBatches' \in {0, lateBatches + 1}
    BY <1>3, Zenon
  <2> QED
    BY <1>2, <2>1, <2>2
<1>8. pos \in 0..Len(list')
  <2>1. Len(entries) \in Nat /\ Len(list) \in Nat
    BY <1>4
  <2> QED
    BY <1>4, <1>5, <2>1
<1> QED
  BY <1>3, <1>5, <1>6, <1>7, <1>8

(* A refill begins or goes on.                                             *)
LEMMA MaybeTyped ==
  ASSUME AutoplayTypeOK, NEW on, NEW broken, NEW ahead, MaybeRefill(on, broken, ahead)
  PROVE  refill' \in {"no", "pool", "mix", "resolve", "selftest"}
BY DEF MaybeRefill, AutoplayTypeOK

(* The breaker remembers at most RapidStarts starts and this one.          *)
LEMMA BreakerTyped ==
  ASSUME AutoplayTypeOK, NEW ahead, Breaker(ahead)
  PROVE  /\ recentStarts' \in 0..(RapidStarts + 1) /\ circuitBroken' \in BOOLEAN
         /\ refill' \in {"no", "pool", "mix", "resolve", "selftest"}
<1>1. recentStarts \in 0..(RapidStarts + 1) /\ RapidStarts \in Nat
  BY AutoplayAssumption DEF AutoplayTypeOK
<1>2. Min({recentStarts, RapidStarts}) \in 0..RapidStarts
  BY <1>1, OfTwo
<1>3. PICK kept \in 0..Min({recentStarts, RapidStarts}) :
        /\ recentStarts' = kept + 1
        /\ \/ circuitBroken' = TRUE /\ UNCHANGED refill
           \/ MaybeRefill(enabled, circuitBroken, ahead) /\ UNCHANGED circuitBroken
  BY Zenon DEF Breaker
<1>4. recentStarts' \in 0..(RapidStarts + 1)
  BY <1>1, <1>2, <1>3
<1>5. circuitBroken' \in BOOLEAN /\ refill' \in {"no", "pool", "mix", "resolve", "selftest"}
  <2>1. circuitBroken \in BOOLEAN /\ refill \in {"no", "pool", "mix", "resolve", "selftest"}
    BY DEF AutoplayTypeOK
  <2> QED
    BY <1>3, <2>1, MaybeTyped
<1> QED
  BY <1>4, <1>5

(* At the start.                                                           *)
LEMMA AutoplayTypeStart == AutoplayInit => AutoplayTypeOK
<1> SUFFICES ASSUME AutoplayInit PROVE AutoplayTypeOK
  OBVIOUS
<1>1. MaxCopies \in Nat /\ RapidStarts \in Nat
  BY AutoplayAssumption
<1>2. pool \in [Track -> 0..MaxCopies] /\ recentStarts \in 0..(RapidStarts + 1)
  BY <1>1 DEF AutoplayInit
<1>3. /\ appended \in Seq(Track) /\ list \in Seq(Track) /\ pos \in 0..Len(list)
      /\ storage \in [autoplay : BOOLEAN, queue : Seq(Track)]
  BY DEF AutoplayInit
<1> QED
  BY <1>2, <1>3 DEF AutoplayInit, AutoplayTypeOK

(* In every step.                                                          *)
LEMMA AutoplayTypeNext == AutoplayTypeOK /\ [AutoplayNext]_autoplayVars => AutoplayTypeOK'
<1> SUFFICES ASSUME AutoplayTypeOK, [AutoplayNext]_autoplayVars PROVE AutoplayTypeOK'
  OBVIOUS
<1>1. CASE PoolAnswered
  <2>1. UNCHANGED <<enabled, selfTestDone, circuitBroken, recentStarts, currentTrack, queuedAhead,
                    appended, list, pos, blocked, storage, lateBatches>>
    BY <1>1 DEF PoolAnswered
  <2>a. PICK answer \in SUBSET Track : \E p \in {pool, Added(answer)} :
          \/ refill' = "mix" /\ pool' = p /\ UNCHANGED <<batch, seen>>
          \/ TakeBatch(p)
    BY <1>1 DEF PoolAnswered
  <2>2. PICK p \in {pool, Added(answer)} :
          \/ refill' = "mix" /\ pool' = p /\ UNCHANGED <<batch, seen>>
          \/ TakeBatch(p)
    BY <2>a
  <2>3. /\ batch' \in SUBSET Track /\ seen' \in SUBSET Track
        /\ pool' \in [Track -> 0..MaxCopies] /\ refill' \in {"no", "resolve", "mix"}
    <3>1. CASE TakeBatch(p)
      BY <3>1, TakeBatchTyped
    <3>2. CASE refill' = "mix" /\ pool' = p /\ UNCHANGED <<batch, seen>>
      BY <3>2, PoolTyped DEF AutoplayTypeOK
    <3> QED
      BY <2>2, <3>1, <3>2
  <2> QED
    BY <2>1, <2>3 DEF AutoplayTypeOK
<1>2. CASE MixAnswered
  <2>1. UNCHANGED <<enabled, selfTestDone, circuitBroken, recentStarts, currentTrack, queuedAhead,
                    appended, list, pos, blocked, storage, lateBatches>>
    BY <1>2 DEF MixAnswered
  <2>2. /\ batch' \in SUBSET Track /\ seen' \in SUBSET Track
        /\ pool' \in [Track -> 0..MaxCopies] /\ refill' \in {"no", "resolve"}
    BY <1>2, TakeBatchTyped DEF MixAnswered
  <2> QED
    BY <2>1, <2>2 DEF AutoplayTypeOK
<1>3. CASE Resolved
  <2>1. UNCHANGED <<enabled, circuitBroken, recentStarts, currentTrack, seen, pool, pos, blocked>>
    BY <1>3 DEF Resolved
  <2>2. PICK found \in SUBSET batch :
          \/ /\ refill' \in {"no", "selftest"} /\ batch' \in {{}, found}
             /\ UNCHANGED <<list, appended, storage, queuedAhead, lateBatches>>
             /\ selfTestDone' \in {selfTestDone, TRUE}
          \/ AppendAll(found) /\ UNCHANGED selfTestDone
    BY <1>3 DEF Resolved
  <2>3. found \in SUBSET Track
    BY DEF AutoplayTypeOK
  <2>4. CASE AppendAll(found) /\ UNCHANGED selfTestDone
    BY <2>1, <2>3, <2>4, AppendTyped DEF AutoplayTypeOK
  <2>5. CASE ~(AppendAll(found) /\ UNCHANGED selfTestDone)
    BY <2>1, <2>2, <2>3, <2>5 DEF AutoplayTypeOK
  <2> QED
    BY <2>4, <2>5
<1>4. CASE Probed
  <2>1. UNCHANGED <<enabled, selfTestDone, recentStarts, currentTrack, seen, pool, pos, blocked>>
    BY <1>4 DEF Probed
  <2>2. \/ AppendAll(batch) /\ UNCHANGED circuitBroken
        \/ /\ circuitBroken' = TRUE /\ refill' = "no" /\ batch' = {}
           /\ UNCHANGED <<list, appended, storage, queuedAhead, lateBatches>>
    BY <1>4 DEF Probed
  <2>3. batch \in SUBSET Track
    BY DEF AutoplayTypeOK
  <2>4. CASE AppendAll(batch) /\ UNCHANGED circuitBroken
    BY <2>1, <2>3, <2>4, AppendTyped DEF AutoplayTypeOK
  <2>5. CASE ~(AppendAll(batch) /\ UNCHANGED circuitBroken)
    BY <2>1, <2>2, <2>5 DEF AutoplayTypeOK
  <2> QED
    BY <2>4, <2>5
<1>5. ASSUME NEW k \in 1..Len(list), PlayEntry(k)
      PROVE  AutoplayTypeOK'
  <2>1. /\ pos' = k /\ list' = list /\ currentTrack' = list[k] /\ seen' = seen \cup {list[k]}
        /\ queuedAhead' = Max({0, queuedAhead - 1}) /\ appended' = ShiftMirror
        /\ storage' = [storage EXCEPT !.queue = appended'] /\ Breaker(queuedAhead')
        /\ UNCHANGED <<enabled, batch, selfTestDone, pool, blocked, lateBatches>>
    BY <1>5 DEF PlayEntry, AutoplayTrackStarts
  <2>2. list \in Seq(Track) /\ appended \in Seq(Track) /\ queuedAhead \in Nat
    BY DEF AutoplayTypeOK
  <2>3. list[k] \in Track /\ pos' \in 0..Len(list')
    BY <2>1, <2>2
  <2>4. appended' \in Seq(Track)
    BY <2>1, <2>2 DEF ShiftMirror
  <2>5. queuedAhead' \in Nat
    <3>1. queuedAhead - 1 \in Int /\ 0 \in Int
      BY <2>2
    <3>2. Max({0, queuedAhead - 1}) = IF 0 >= queuedAhead - 1 THEN 0 ELSE queuedAhead - 1
      BY <3>1, OfTwo
    <3> QED
      BY <2>1, <2>2, <3>2
  <2> QED
    BY <2>1, <2>3, <2>4, <2>5, BreakerTyped DEF AutoplayTypeOK
<1>6. ASSUME NEW x \in Track, NEW replaces \in BOOLEAN, PlayOther(x, replaces)
      PROVE  AutoplayTypeOK'
  <2>1. /\ pos' = 0 /\ list' \in {<<>>, list} /\ currentTrack' = x /\ seen' = seen \cup {x}
        /\ queuedAhead' = 0 /\ appended' = <<>>
        /\ storage' = [storage EXCEPT !.queue = <<>>] /\ Breaker(0)
        /\ UNCHANGED <<enabled, batch, selfTestDone, pool, blocked, lateBatches>>
    BY <1>6 DEF PlayOther, OtherTrackStarts
  <2>2. list' \in Seq(Track) /\ appended' \in Seq(Track) /\ pos' \in 0..Len(list')
    <3>1. <<>> \in Seq(Track) /\ list \in Seq(Track)
      BY DEF AutoplayTypeOK
    <3>2. list' \in Seq(Track) /\ appended' \in Seq(Track)
      BY <2>1, <3>1
    <3> QED
      BY <2>1, <3>2
  <2>3. storage' \in [autoplay : BOOLEAN, queue : Seq(Track)]
    <3>1. storage' = [storage EXCEPT !.queue = <<>>] /\ <<>> \in Seq(Track)
      BY <2>1
    <3> QED
      BY <3>1 DEF AutoplayTypeOK
  <2> QED
    BY <2>1, <2>2, <2>3, BreakerTyped DEF AutoplayTypeOK
<1>7. CASE PlaybackStops
  BY <1>7, MaybeTyped DEF PlaybackStops, AutoplayTypeOK
<1>8. ASSUME NEW on \in BOOLEAN, SetEnabled(on)
      PROVE  AutoplayTypeOK'
  <2>1. /\ enabled' = on /\ storage' = [storage EXCEPT !.autoplay = on]
        /\ circuitBroken' \in {circuitBroken, FALSE} /\ recentStarts' \in {recentStarts, 0}
        /\ lateBatches' \in {lateBatches, 0}
        /\ refill' = refill \/ MaybeRefill(TRUE, FALSE, queuedAhead)
        /\ UNCHANGED <<batch, selfTestDone, currentTrack, queuedAhead, seen, pool, appended, list,
                       pos, blocked>>
    BY <1>8 DEF SetEnabled
  <2>2. refill' \in {"no", "pool", "mix", "resolve", "selftest"}
    BY <2>1, MaybeTyped DEF AutoplayTypeOK
  <2>3. recentStarts' \in 0..(RapidStarts + 1) /\ lateBatches' \in Nat
    <3>1. 0 \in 0..(RapidStarts + 1) /\ 0 \in Nat
      BY AutoplayAssumption
    <3>2. recentStarts \in 0..(RapidStarts + 1) /\ lateBatches \in Nat
      BY DEF AutoplayTypeOK
    <3>3. recentStarts' \in {recentStarts, 0} /\ lateBatches' \in {lateBatches, 0}
      BY <2>1, Zenon
    <3> QED
      BY <3>1, <3>2, <3>3, Zenon
  <2>4. /\ storage' \in [autoplay : BOOLEAN, queue : Seq(Track)]
        /\ {enabled', circuitBroken'} \subseteq BOOLEAN
    BY <2>1 DEF AutoplayTypeOK
  <2> QED
    BY <2>1, <2>2, <2>3, <2>4 DEF AutoplayTypeOK
<1>9. CASE Rate
  <2>1. /\ blocked' = SymDiff(blocked, {currentTrack}) /\ currentTrack # NoTrack
        /\ UNCHANGED <<enabled, refill, batch, selfTestDone, circuitBroken, recentStarts,
                       currentTrack, queuedAhead, seen, pool, appended, list, pos, storage,
                       lateBatches>>
    BY <1>9 DEF Rate
  <2>2. blocked' \in SUBSET Track
    BY <2>1 DEF AutoplayTypeOK, SymDiff
  <2> QED
    BY <2>1, <2>2 DEF AutoplayTypeOK
<1>10. CASE RestartPlayer
  <2>1. storage.autoplay \in BOOLEAN /\ storage.queue \in Seq(Track)
    BY DEF AutoplayTypeOK
  <2>2. ToSet(storage.queue) \in SUBSET Track /\ Len(storage.queue) \in Nat
    BY <2>1 DEF ToSet
  <2>3. /\ [x \in Track |-> 0] \in [Track -> 0..MaxCopies] /\ 0 \in 0..(RapidStarts + 1)
        /\ 0 \in 0..Len(storage.queue)
    BY <2>2, AutoplayAssumption
  <2> QED
    BY <1>10, <2>1, <2>2, <2>3 DEF RestartPlayer, AutoplayTypeOK
<1>11. CASE UNCHANGED autoplayVars
  BY <1>11 DEF autoplayVars, AutoplayTypeOK
<1> QED
  BY <1>1, <1>2, <1>3, <1>4, <1>5, <1>6, <1>7, <1>8, <1>9, <1>10, <1>11 DEF AutoplayNext

\* AutoplayFeature.ts: every state of autoplay has its types; the breaker remembers
\* at most one start more than trips it, and the player is at an entry of its list.
THEOREM AutoplayTypeCorrect == AutoplaySpec => []AutoplayTypeOK
BY AutoplayTypeStart, AutoplayTypeNext, PTL DEF AutoplaySpec

(* What the invariant of the feedback says nothing of.                     *)
FeedbackRest == nudgeCounter \in Nat /\ {playing, nudgeShown, autoplayOn, onboarded, card} \subseteq BOOLEAN

(* The first state.                                                        *)
LEMMA FeedbackRestStart == FeedbackInit => FeedbackRest
<1> SUFFICES ASSUME FeedbackInit PROVE FeedbackRest
  OBVIOUS
<1>1. /\ playing = FALSE /\ nudgeShown = FALSE /\ autoplayOn = FALSE /\ onboarded = FALSE
      /\ card = FALSE /\ nudgeCounter = 0
  BY DEF FeedbackInit
<1> QED
  BY <1>1 DEF FeedbackRest

(* Every step of the feedback.                                             *)
LEMMA FeedbackRestStep == FeedbackRest /\ [FeedbackNext]_feedbackVars => FeedbackRest'
<1> SUFFICES ASSUME FeedbackRest, [FeedbackNext]_feedbackVars PROVE FeedbackRest'
  OBVIOUS
<1>1. ASSUME NEW v \in Verdict, Key(v)
      PROVE  FeedbackRest'
  <2>1. /\ onboarded' = TRUE /\ card' = FALSE /\ nudgeShown' = FALSE
        /\ UNCHANGED <<playing, nudgeCounter, autoplayOn>>
    BY <1>1 DEF Key, NudgeShown
  <2> QED
    BY <2>1 DEF FeedbackRest
<1>2. ASSUME NEW listen, NEW next, TrackChanges(listen, next)
      PROVE  FeedbackRest'
  <2>1. /\ playing' = (next # NoneHeard) /\ UNCHANGED <<autoplayOn, onboarded, card>>
        /\ \/ UNCHANGED <<nudgeCounter, nudgeShown>>
           \/ \E m : Nudge(m, next)
    BY <1>2 DEF TrackChanges
  <2>2. playing' \in BOOLEAN
    <3>1. (next # NoneHeard) \in BOOLEAN
      OBVIOUS
    <3> QED
      BY <2>1, <3>1, Zenon
  <2>3. nudgeCounter' \in Nat /\ nudgeShown' \in BOOLEAN
    <3>1. NudgeEvery \in Nat
      BY FeedbackAssumption
    <3>2. nudgeCounter \in Nat /\ nudgeShown \in BOOLEAN
      BY DEF FeedbackRest
    <3>3. ASSUME NEW m, Nudge(m, next)
          PROVE  nudgeCounter' \in Nat /\ nudgeShown' \in BOOLEAN
      <4> DEFINE rated == Rated(m, next.song)
                 ask == nudgeCounter + 1 >= NudgeEvery /\ ~rated
      <4>1. /\ nudgeCounter' \in {0, nudgeCounter + 1, NudgeEvery}
            /\ \/ nudgeShown' = nudgeShown
               \/ nudgeShown' = IF ask THEN TRUE ELSE nudgeShown /\ ~rated
        BY <3>3 DEF Nudge, NudgeShown
      <4>2. nudgeCounter' \in Nat
        BY <3>1, <3>2, <4>1
      <4>3. (nudgeShown /\ ~rated) \in BOOLEAN
        OBVIOUS
      <4>4. nudgeShown' \in BOOLEAN
        BY <3>2, <4>1, <4>3, Zenon
      <4> QED
        BY <4>2, <4>4
    <3> QED
      BY <2>1, <3>2, <3>3
  <2> QED
    BY <2>1, <2>2, <2>3 DEF FeedbackRest
<1>3. CASE SwitchAutoplay \/ DismissCard \/ RestartFeedback
  <2>1. /\ autoplayOn' = autoplayOn \/ autoplayOn' = ~autoplayOn
        /\ onboarded' = onboarded \/ onboarded' = TRUE
        /\ \/ card' = (card \/ (autoplayOn' /\ ~onboarded)) \/ card' = FALSE
           \/ card' = (autoplayOn /\ ~onboarded)
        /\ playing' = playing \/ playing' = FALSE
        /\ nudgeShown' = nudgeShown \/ nudgeShown' = FALSE
        /\ nudgeCounter' \in {nudgeCounter, 0}
    BY <1>3 DEF SwitchAutoplay, DismissCard, RestartFeedback
  <2>2. /\ (~autoplayOn) \in BOOLEAN /\ (card \/ (autoplayOn' /\ ~onboarded)) \in BOOLEAN
        /\ (autoplayOn /\ ~onboarded) \in BOOLEAN
    OBVIOUS
  <2>3. /\ playing \in BOOLEAN /\ nudgeShown \in BOOLEAN /\ autoplayOn \in BOOLEAN
        /\ onboarded \in BOOLEAN /\ card \in BOOLEAN
    BY DEF FeedbackRest
  <2>4. /\ playing' \in BOOLEAN /\ nudgeShown' \in BOOLEAN /\ autoplayOn' \in BOOLEAN
        /\ onboarded' \in BOOLEAN /\ card' \in BOOLEAN
    BY <2>1, <2>2, <2>3, Zenon
  <2> QED
    BY <2>1, <2>4 DEF FeedbackRest
<1>4. CASE UNCHANGED feedbackVars
  BY <1>4 DEF feedbackVars, FeedbackRest
<1> QED
  BY <1>1, <1>2, <1>3, <1>4 DEF FeedbackNext

\* autoplay-feedback.ts, autoplay-nudge.ts: every state of the feedback has its types.
THEOREM FeedbackTypeCorrect == FeedbackSpec => []FeedbackTypeOK
<1>1. FeedbackInv /\ FeedbackRest => FeedbackTypeOK
  BY DEF FeedbackInv, FeedbackRest, FeedbackTypeOK
<1> QED
  BY <1>1, FeedbackFirst, FeedbackStep, FeedbackRestStart, FeedbackRestStep, PTL DEF FeedbackSpec

(* A track that plays is one that began.                                   *)
ListeningInv == ListeningTypeOK /\ (active => play \in Play)

(* Nothing plays at first.                                                 *)
LEMMA ListeningStart == ListeningInit => ListeningInv
<1> SUFFICES ASSUME ListeningInit PROVE ListeningInv
  OBVIOUS
<1>1. MaxTime \in Nat /\ MaxPlays \in Nat
  BY ListeningAssumption
<1>2. /\ sent \in [Play \X Service -> Nat] /\ began \in [Play -> 0..MaxTime]
      /\ clock \in 0..MaxTime /\ trackStart \in 0..MaxTime /\ trackStartedAt \in 0..MaxTime
      /\ play \in 0..MaxPlays /\ timer \in 0..MaxPlays
  BY <1>1 DEF ListeningInit
<1>3. /\ active = FALSE /\ scrobbled = FALSE /\ isPlaying = FALSE /\ status = "STOPPED"
      /\ services \subseteq Service /\ asking = {} /\ timers = {} /\ resolving = {} /\ rows = {}
  BY DEF ListeningInit
<1> QED
  BY <1>2, <1>3 DEF ListeningInv, ListeningTypeOK

(* A change of track: a listen of the play that ends, the first moments of *)
(* the next.                                                               *)
LEMMA ChangeTyped ==
  ASSUME ListeningInv, NEW starts \in BOOLEAN, TrackChange(starts)
  PROVE  ListeningInv'
<1> USE ListeningAssumption
<1>1. /\ clock \in 0..MaxTime /\ play \in 0..MaxPlays /\ MaxTime \in Nat /\ MaxPlays \in Nat
      /\ began \in [Play -> 0..MaxTime] /\ (active => play \in Play)
  BY DEF ListeningInv, ListeningTypeOK
<1>2. resolving' \subseteq [of : Play, listened : 0..MaxTime]
  <2>1. PICK listened \in 0..(IF active THEN clock - began[play] ELSE 0) : ListenEnds(listened)
    BY DEF TrackChange
  <2>2. active => began[play] \in 0..MaxTime /\ listened \in 0..MaxTime
    BY <1>1, <2>1
  <2> QED
    BY <1>1, <2>1, <2>2 DEF ListenEnds, ListeningInv, ListeningTypeOK
<1>3. UNCHANGED <<clock, status, isPlaying, rows>> /\ active' = starts
  BY DEF TrackChange
<1>4. CASE starts
  <2>1. /\ play < MaxPlays /\ play' = play + 1 /\ began' = [began EXCEPT ![play + 1] = clock]
        /\ ScrobbleStarts(play + 1) /\ trackStartedAt' = clock
    BY <1>4 DEF TrackChange
  <2>2. play' \in Play /\ play' \in 0..MaxPlays /\ play + 1 \in Play
    BY <1>1, <2>1 DEF Play
  <2>3. began' \in [Play -> 0..MaxTime]
    BY <1>1, <2>1
  <2>4. /\ timers' \subseteq timers /\ timer' = 0 /\ scrobbled' = FALSE /\ trackStart' = clock
        /\ asking' \subseteq asking \cup {[of |-> play + 1, to |-> services]}
        /\ UNCHANGED <<services, sent>>
    BY <2>1 DEF ScrobbleStarts, Running
  <2>5. /\ services \subseteq Service /\ asking \subseteq Call /\ timers \subseteq Call
    BY DEF ListeningInv, ListeningTypeOK
  <2>6. asking' \subseteq Call /\ timers' \subseteq Call
    BY <2>2, <2>4, <2>5 DEF Call
  <2>7. timer' \in 0..MaxPlays
    BY <1>1, <2>4
  <2> QED
    BY <1>1, <1>2, <1>3, <2>1, <2>2, <2>3, <2>4, <2>6, <2>7 DEF ListeningInv, ListeningTypeOK
<1>5. CASE ~starts
  <2>1. UNCHANGED <<play, began, trackStartedAt, scrobbleVars>> /\ active' = FALSE
    BY <1>3, <1>5 DEF TrackChange
  <2> QED
    BY <1>2, <1>3, <2>1 DEF ListeningInv, ListeningTypeOK, scrobbleVars
<1> QED
  BY <1>4, <1>5

(* Every step of the listening.                                            *)
LEMMA ListeningTypeNext == ListeningInv /\ [ListeningNext]_listeningVars => ListeningInv'
<1> SUFFICES ASSUME ListeningInv, [ListeningNext]_listeningVars PROVE ListeningInv'
  OBVIOUS
<1> USE DEF ListeningInv, ListeningTypeOK
<1>1. ASSUME NEW starts \in BOOLEAN, TrackChange(starts)
      PROVE  ListeningInv'
  BY <1>1, ChangeTyped
<1>2. ASSUME NEW s \in {"PLAYING", "PAUSED", "STOPPED"}, StatusChange(s)
      PROVE  ListeningInv'
  <2>1. isPlaying' = (s = "PLAYING") /\ (s = "PLAYING") \in BOOLEAN
    BY <1>2 DEF StatusChange
  <2>2. isPlaying' \in BOOLEAN
    BY <2>1, Zenon
  <2> QED
    BY <1>2, <2>2 DEF StatusChange, scrobbleVars, listenVars
<1>3. ASSUME NEW c \in asking, StatusAnswered(c)
      PROVE  ListeningInv'
  <2>1. PICK has \in SUBSET c.to :
          \/ UNCHANGED <<timers, timer>>
          \/ timers' = timers \cup {[of |-> c.of, to |-> has]} /\ timer' = c.of
    BY <1>3 DEF StatusAnswered
  <2>2. c.of \in Play /\ c.of \in 0..MaxPlays /\ [of |-> c.of, to |-> has] \in Call
    BY DEF Call, Play
  <2>3. timers' \subseteq Call /\ timer' \in 0..MaxPlays
    BY <2>1, <2>2
  <2> QED
    BY <1>3, <2>3 DEF StatusAnswered, listenVars
<1>4. ASSUME NEW c \in timers, TimerFires(c)
      PROVE  ListeningInv'
  <2>1. /\ scrobbled' = TRUE /\ timers' \subseteq timers /\ timer' = 0
        /\ UNCHANGED <<clock, play, active, status, isPlaying, services, trackStart, asking, began,
                       listenVars>>
    BY <1>4 DEF TimerFires, Running
  <2>2. sent' \in [Play \X Service -> Nat]
    BY <1>4 DEF TimerFires
  <2>3. timer' \in 0..MaxPlays
    BY <2>1, ListeningAssumption
  <2> QED
    BY <2>1, <2>2, <2>3 DEF listenVars
<1>5. ASSUME NEW s \in Service, SwitchService(s)
      PROVE  ListeningInv'
  BY <1>5 DEF SwitchService, listenVars
<1>6. ASSUME NEW e \in resolving, ListenResolved(e)
      PROVE  ListeningInv'
  <2>1. [of |-> e.of, startedAt |-> trackStartedAt, listened |-> e.listened]
          \in [of : Play, startedAt : 0..MaxTime, listened : 0..MaxTime]
    OBVIOUS
  <2>2. /\ rows' \subseteq [of : Play, startedAt : 0..MaxTime, listened : 0..MaxTime]
        /\ resolving' \subseteq resolving
    BY <1>6, <2>1 DEF ListenResolved
  <2> QED
    BY <1>6, <2>2 DEF ListenResolved, scrobbleVars
<1>7. CASE ListeningTick
  <2>1. clock' \in 0..MaxTime
    BY <1>7, ListeningAssumption DEF ListeningTick
  <2> QED
    BY <1>7, <2>1 DEF ListeningTick, scrobbleVars, listenVars
<1>8. CASE UNCHANGED listeningVars
  BY <1>8 DEF listeningVars
<1> QED
  BY <1>1, <1>2, <1>3, <1>4, <1>5, <1>6, <1>7, <1>8 DEF ListeningNext

\* ScrobbleFeature.ts, HistoryFeature.ts: every state of the listening has its types;
\* a listen is recorded of a track that began, with no negative length.
THEOREM ListeningTypeCorrect == ListeningSpec => []ListeningTypeOK
<1>1. ListeningInv => ListeningTypeOK
  BY DEF ListeningInv
<1> QED
  BY <1>1, ListeningStart, ListeningTypeNext, PTL DEF ListeningSpec

(* Keys that were saved stay saved.                                        *)
LEMMA KeysStep == keysSaved \in BOOLEAN /\ [SettingsNext]_settingsVars => (keysSaved \in BOOLEAN)'
BY DEF SettingsNext, settingsVars, ToggleSettings, ClickSettings, SaveKeys, BackendDoes, Connected,
       BadgeShown, RequestFails, RestartSettings

\* ScrobbleSettings.ts: every state of the settings has its types.
THEOREM SettingsTypeCorrect == SettingsSpec => []SettingsTypeOK
<1>1. SettingsInit => keysSaved \in BOOLEAN
  BY DEF SettingsInit
<1>2. SettingsOK /\ keysSaved \in BOOLEAN => SettingsTypeOK
  BY DEF SettingsOK, SettingsTypeOK, SettingsRequest
<1> QED
  BY <1>1, <1>2, KeysStep, SettingsStart, SettingsStep, PTL DEF SettingsSpec

(* The numbers of the queue. Each queued listen has used one id, and a row *)
(* has been tried less than MaxAttempts times by the flushes that read it: *)
(* its attempts and the flushes that may still count one stay bounded.     *)
Reading(i) == {f \in Flushes : \E q \in flushing[f] : q.id = i}
Queued == {l \in Listen : command[l] = "queued"}

QueueTyped ==
  /\ command \in [Listen -> {"no", "sending", "taken", "done", "queued", "lost"}]
  /\ flushing \in [Flushes -> SUBSET [id : Nat, of : Listen]]
  /\ flushTook \in [Flushes -> BOOLEAN] /\ doubtful \subseteq Listen

QueueCounts ==
  /\ QueueTyped
  /\ lastId = Cardinality(Queued)
  /\ \A r, q \in queued : r.id = q.id => r = q
  /\ \A r \in queued : r.attempts + Cardinality(Reading(r.id)) <= MaxAttempts + MaxFlushes

(* How many flushes read a row.                                            *)
LEMMA ReadersFew ==
  ASSUME NEW S \in SUBSET Flushes
  PROVE  /\ IsFiniteSet(S) /\ Cardinality(S) \in 0..MaxFlushes
         /\ \A f \in S : Cardinality(S \ {f}) = Cardinality(S) - 1
<1>1. MaxFlushes \in Nat
  BY ScrobbleQueueAssumption
<1>2. IsFiniteSet(Flushes) /\ Cardinality(Flushes) = MaxFlushes
  <2>1. 1 \in Int /\ MaxFlushes \in Int
    BY <1>1
  <2> QED
    BY <1>1, <2>1, FS_Interval DEF Flushes
<1>3. IsFiniteSet(S) /\ Cardinality(S) <= MaxFlushes /\ Cardinality(S) \in Nat
  BY <1>2, FS_Subset, FS_CardinalityType
<1>4. ASSUME NEW f \in S PROVE Cardinality(S \ {f}) = Cardinality(S) - 1
  BY <1>3, FS_RemoveElement
<1> QED
  BY <1>1, <1>3, <1>4

(* The queue starts empty.                                                 *)
LEMMA QueueCountsStart == ScrobbleQueueInit => QueueCounts
<1> SUFFICES ASSUME ScrobbleQueueInit PROVE QueueCounts
  OBVIOUS
<1>1. QueueTyped
  BY DEF ScrobbleQueueInit, QueueTyped
<1>2. Queued = {}
  BY DEF ScrobbleQueueInit, Queued
<1> QED
  BY <1>1, <1>2, FS_EmptySet DEF ScrobbleQueueInit, QueueCounts

(* A step that queues nothing and reads nothing: no row is tried more.     *)
LEMMA NothingQueued ==
  ASSUME QInv, QueueCounts, QueueTyped', Queued' = Queued, UNCHANGED <<queued, lastId>>,
         \A f \in Flushes : flushing'[f] \subseteq flushing[f]
  PROVE  QueueCounts'
<1>1. ASSUME NEW r \in queued
      PROVE  r.attempts + Cardinality(Reading(r.id)') <= MaxAttempts + MaxFlushes
  <2>1. Reading(r.id)' \subseteq Reading(r.id) /\ Reading(r.id) \in SUBSET Flushes
    BY DEF Reading, Flushes
  <2>2. /\ Cardinality(Reading(r.id)') <= Cardinality(Reading(r.id))
        /\ Cardinality(Reading(r.id)) \in Nat /\ Cardinality(Reading(r.id)') \in Nat
    <3>1. Reading(r.id)' \in SUBSET Flushes
      BY <2>1
    <3>2. /\ IsFiniteSet(Reading(r.id)) /\ Cardinality(Reading(r.id)) \in Nat
          /\ Cardinality(Reading(r.id)') \in Nat
      BY <2>1, <3>1, ReadersFew
    <3> QED
      BY <2>1, <3>2, FS_Subset
  <2>3. r.attempts \in Nat
    BY DEF QInv, RowsOK
  <2>4. MaxAttempts + MaxFlushes \in Nat
    BY ScrobbleQueueAssumption
  <2>5. r.attempts + Cardinality(Reading(r.id)) <= MaxAttempts + MaxFlushes
    BY DEF QueueCounts
  <2> QED
    BY <2>2, <2>3, <2>4, <2>5
<1>2. \A r \in queued' : r.attempts + Cardinality(Reading(r.id)') <= MaxAttempts + MaxFlushes
  BY <1>1
<1>3. lastId' = Cardinality(Queued') /\ \A r, q \in queued' : r.id = q.id => r = q
  BY DEF QueueCounts
<1> QED
  BY <1>2, <1>3 DEF QueueCounts, Reading

(* A row is added for a listen that had none.                              *)
LEMMA QueueAddCounts ==
  ASSUME QInv, QueueCounts, NEW l \in Listen, command[l] \in {"sending", "taken"},
         Becomes(l, "queued"), lastId' = lastId + 1,
         queued' = queued \cup {[id |-> lastId', of |-> l, attempts |-> 0]},
         doubtful' = IF command[l] = "taken" THEN doubtful \cup {l} ELSE doubtful,
         UNCHANGED <<flushing, flushTook>>
  PROVE  QueueCounts'
<1>1. QueueTyped'
  BY DEF QueueCounts, QueueTyped, Becomes
<1>2. Queued' = Queued \cup {l} /\ l \notin Queued
  BY DEF QueueCounts, QueueTyped, Becomes, Queued
<1>3. IsFiniteSet(Queued)
  <2>1. Queued \subseteq Listen
    BY DEF Queued
  <2> QED
    BY <2>1, ScrobbleQueueAssumption, FS_Subset
<1>4. lastId' = Cardinality(Queued')
  BY <1>2, <1>3, FS_AddElement DEF QueueCounts
<1>5. ASSUME NEW r \in queued'
      PROVE  r.attempts + Cardinality(Reading(r.id)) <= MaxAttempts + MaxFlushes
  <2>1. CASE r \in queued
    BY <2>1 DEF QueueCounts
  <2>2. CASE r \notin queued
    <3>1. r.attempts = 0
      BY <2>2
    <3>2. Reading(r.id) \in SUBSET Flushes
      BY DEF Reading, Flushes
    <3>3. Cardinality(Reading(r.id)) \in 0..MaxFlushes
      BY <3>2, ReadersFew
    <3>4. MaxAttempts \in Nat /\ MaxFlushes \in Nat
      BY ScrobbleQueueAssumption
    <3> QED
      BY <3>1, <3>3, <3>4
  <2> QED
    BY <2>1, <2>2
<1>6. \A i : Reading(i)' = Reading(i)
  BY DEF Reading, Flushes
<1>7. \A r, q \in queued' : r.id = q.id => r = q
  <2>1. \A r \in queued : r.id \in 1..lastId /\ lastId \in Nat
    BY DEF QInv, RowsOK
  <2>2. \A r \in queued : r.id # lastId'
    BY <2>1
  <2>3. \A r \in queued' : r \in queued \/ r = [id |-> lastId', of |-> l, attempts |-> 0]
    OBVIOUS
  <2> QED
    BY <2>2, <2>3 DEF QueueCounts
<1> QED
  BY <1>1, <1>4, <1>5, <1>6, <1>7 DEF QueueCounts

(* A flush reads rows that were tried less than MaxAttempts times.         *)
LEMMA StartFlushCounts ==
  ASSUME QInv, QueueCounts, NEW h \in Flushes, StartFlush(h)
  PROVE  QueueCounts'
<1> DEFINE read == {[id |-> r.id, of |-> r.of] : r \in Batch}
<1>1. flushing[h] = {} /\ flushing' = [flushing EXCEPT ![h] = read]
      /\ UNCHANGED <<queued, lastId, command, flushTook>>
  BY DEF StartFlush
<1>2. \A r \in queued : r.id \in Nat /\ r.of \in Listen /\ r.attempts \in Nat
  BY DEF QInv, RowsOK
<1>3. read \in SUBSET [id : Nat, of : Listen]
  <2>1. Batch \subseteq queued
    BY DEF Batch, Retryable
  <2> QED
    BY <1>2, <2>1
<1>4. QueueTyped'
  <2>1. doubtful' \subseteq Listen
    BY DEF StartFlush, QueueCounts, QueueTyped
  <2> HIDE DEF read
  <2> QED
    BY <1>1, <1>3, <2>1 DEF QueueCounts, QueueTyped
<1>5. Queued' = Queued
  BY <1>1 DEF Queued
<1>6. ASSUME NEW r \in queued
      PROVE  r.attempts + Cardinality(Reading(r.id)') <= MaxAttempts + MaxFlushes
  <2>1. Reading(r.id) \in SUBSET Flushes /\ Reading(r.id)' \in SUBSET Flushes
    BY DEF Reading, Flushes
  <2>2. h \notin Reading(r.id)
    BY <1>1 DEF Reading
  <2>3. \A f \in Flushes \ {h} : flushing'[f] = flushing[f]
    BY <1>1 DEF QueueCounts, QueueTyped
  <2>4. MaxAttempts \in Nat /\ MaxFlushes \in Nat
    BY ScrobbleQueueAssumption
  <2>5. CASE r \in Batch
    <3>1. r.attempts < MaxAttempts
      BY <2>5 DEF Batch, Retryable
    <3>2. Cardinality(Reading(r.id)') \in 0..MaxFlushes
      BY <2>1, ReadersFew
    <3> QED
      BY <1>2, <2>4, <3>1, <3>2
  <2>6. CASE r \notin Batch
    <3>1. \A q \in flushing'[h] : q.id # r.id
      <4>1. flushing'[h] = read
        BY <1>1 DEF QueueCounts, QueueTyped
      <4>2. Batch \subseteq queued
        BY DEF Batch, Retryable
      <4>3. \A q \in Batch : q.id = r.id => q = r
        BY <4>2 DEF QueueCounts
      <4> QED
        BY <2>6, <4>1, <4>3
    <3>2. Reading(r.id)' = Reading(r.id)
      BY <2>2, <2>3, <3>1 DEF Reading, Flushes
    <3> QED
      BY <3>2 DEF QueueCounts
  <2> QED
    BY <2>5, <2>6
<1> HIDE DEF read
<1>7. \A r \in queued' : r.attempts + Cardinality(Reading(r.id)') <= MaxAttempts + MaxFlushes
  BY <1>1, <1>6
<1>8. lastId' = Cardinality(Queued') /\ \A r, q \in queued' : r.id = q.id => r = q
  BY <1>1, <1>5 DEF QueueCounts
<1> QED
  BY <1>4, <1>7, <1>8 DEF QueueCounts

(* The answer for a row: one flush less reads it, and it may count it.     *)
LEMMA AnswerCounts ==
  ASSUME QInv, QueueCounts, NEW h \in Flushes, NEW ok \in BOOLEAN, FlushAnswered(h, ok)
  PROVE  QueueCounts'
<1>a. PICK c : c = Current(h)
  OBVIOUS
<1>1. c \in flushing[h] /\ c.of \in Listen /\ c.id \in Nat
  BY <1>a, CurrentIsRead DEF QInv, FlushAnswered, FlushesOK, Row
<1>2. /\ queued' = RowsAfter(c.id, ok) \/ queued' = queued
      /\ doubtful' \subseteq doubtful \cup {c.of}
      /\ flushing' = [flushing EXCEPT ![h] = flushing[h] \ {c}]
      /\ flushTook' = [flushTook EXCEPT ![h] = FALSE]
      /\ UNCHANGED <<lastId, command>>
  BY <1>a DEF FlushAnswered
<1>3. /\ flushing'[h] = flushing[h] \ {c}
      /\ \A f \in Flushes \ {h} : flushing'[f] = flushing[f]
  BY <1>2 DEF QueueCounts, QueueTyped
<1>4. QueueTyped'
  BY <1>1, <1>2 DEF QueueCounts, QueueTyped
<1>5. lastId' = Cardinality(Queued')
  BY <1>2 DEF QueueCounts, Queued
<1>6. \A r \in queued' : \/ r \in queued
                         \/ \E q \in queued : q.id = c.id /\ r = [q EXCEPT !.attempts = @ + 1]
  BY <1>2 DEF RowsAfter
<1>7. \A q \in queued : /\ q \in [id : 1..lastId, of : Listen, attempts : Nat]
                        /\ q.attempts \in Nat /\ q.id \in Nat
  BY DEF QInv, RowsOK
<1>8. \A r, q \in queued' : r.id = q.id => r = q
  <2>1. CASE queued' = queued
    BY <2>1 DEF QueueCounts
  <2>2. CASE queued' = RowsAfter(c.id, ok)
    <3>1. CASE ok
      BY <2>2, <3>1 DEF RowsAfter, QueueCounts
    <3>2. CASE ~ok
      <4>1. \A r \in queued' : \E q \in queued :
              r = (IF q.id = c.id THEN [q EXCEPT !.attempts = @ + 1] ELSE q) /\ r.id = q.id
        BY <1>7, <2>2, <3>2 DEF RowsAfter
      <4> QED
        BY <4>1 DEF QueueCounts
    <3> QED
      BY <3>1, <3>2
  <2> QED
    BY <1>2, <2>1, <2>2
<1>9. ASSUME NEW i
      PROVE  /\ Reading(i) \in SUBSET Flushes /\ Reading(i)' \in SUBSET Flushes
             /\ Reading(i)' \subseteq Reading(i)
             /\ i = c.id => h \in Reading(i) /\ Reading(i)' \subseteq Reading(i) \ {h}
  <2>1. Reading(i) \in SUBSET Flushes /\ Reading(i)' \in SUBSET Flushes
    BY DEF Reading, Flushes
  <2>2. Reading(i)' \subseteq Reading(i)
    BY <1>3 DEF Reading, Flushes
  <2>3. ASSUME i = c.id PROVE h \in Reading(i) /\ h \notin Reading(i)'
    <3>1. \A q \in flushing[h] : q.id = c.id => q = c
      <4>1. \A q \in flushing[h] : q \in Row
        BY DEF QInv, FlushesOK
      <4>2. \A q \in flushing[h] : q.id = c.id => q.of = c.of
        BY <1>1 DEF QInv, FlushesOK
      <4> QED
        BY <1>1, <4>1, <4>2 DEF Row
    <3> QED
      BY <1>1, <1>3, <2>3, <3>1 DEF Reading
  <2> QED
    BY <2>1, <2>2, <2>3
<1>10. ASSUME NEW i
       PROVE  /\ Cardinality(Reading(i)) \in Nat /\ Cardinality(Reading(i)') \in Nat
              /\ Cardinality(Reading(i)') <= Cardinality(Reading(i))
              /\ i = c.id => Cardinality(Reading(i)') + 1 <= Cardinality(Reading(i))
  <2>1. /\ IsFiniteSet(Reading(i)) /\ Cardinality(Reading(i)) \in Nat
        /\ Cardinality(Reading(i)') \in Nat
    BY <1>9, ReadersFew
  <2>2. Cardinality(Reading(i)') <= Cardinality(Reading(i))
    BY <1>9, <2>1, FS_Subset
  <2>3. ASSUME i = c.id PROVE Cardinality(Reading(i)') + 1 <= Cardinality(Reading(i))
    <3>1. /\ h \in Reading(i) /\ Reading(i)' \subseteq Reading(i) \ {h}
      BY <1>9, <2>3
    <3>2. /\ Cardinality(Reading(i) \ {h}) = Cardinality(Reading(i)) - 1
          /\ IsFiniteSet(Reading(i) \ {h})
      BY <1>9, <2>1, <3>1, ReadersFew, FS_RemoveElement
    <3>3. Cardinality(Reading(i)') <= Cardinality(Reading(i) \ {h})
      BY <3>1, <3>2, FS_Subset
    <3> QED
      BY <2>1, <3>2, <3>3
  <2> QED
    BY <2>1, <2>2, <2>3
<1>11. ASSUME NEW r \in queued'
       PROVE  r.attempts + Cardinality(Reading(r.id)') <= MaxAttempts + MaxFlushes
  <2>1. MaxAttempts + MaxFlushes \in Nat
    BY ScrobbleQueueAssumption
  <2>2. CASE r \in queued
    <3>1. r.attempts + Cardinality(Reading(r.id)) <= MaxAttempts + MaxFlushes
      BY <2>2 DEF QueueCounts
    <3> QED
      BY <1>7, <1>10, <2>1, <2>2, <3>1
  <2>3. CASE r \notin queued
    <3>1. PICK q \in queued : q.id = c.id /\ r = [q EXCEPT !.attempts = @ + 1]
      BY <1>6, <2>3
    <3>2. r.id = c.id /\ r.attempts = q.attempts + 1 /\ q.attempts \in Nat
      BY <1>7, <3>1
    <3>3. q.attempts + Cardinality(Reading(c.id)) <= MaxAttempts + MaxFlushes
      BY <3>1 DEF QueueCounts
    <3>4. Cardinality(Reading(c.id)') + 1 <= Cardinality(Reading(c.id))
      BY <1>10
    <3>5. Cardinality(Reading(c.id)) \in Nat /\ Cardinality(Reading(c.id)') \in Nat
      BY <1>10
    <3>6. Cardinality(Reading(r.id)') = Cardinality(Reading(c.id)')
      BY <3>2
    <3> QED
      BY <2>1, <3>2, <3>3, <3>4, <3>5, <3>6
  <2> QED
    BY <2>2, <2>3
<1> QED
  BY <1>4, <1>5, <1>8, <1>11 DEF QueueCounts

(* Every step of the queue.                                                *)
LEMMA QueueCountsStep == QInv /\ QueueCounts /\ [ScrobbleQueueNext]_queueVars => QueueCounts'
<1> SUFFICES ASSUME QInv, QueueCounts, [ScrobbleQueueNext]_queueVars PROVE QueueCounts'
  OBVIOUS
<1>1. ASSUME NEW l \in Listen, NEW d \in {"sending", "taken", "done", "lost"},
             command[l] # "queued", Becomes(l, d), doubtful' \subseteq Listen,
             UNCHANGED <<queued, lastId, flushing, flushTook>>
      PROVE  QueueCounts'
  <2>1. QueueTyped'
    BY <1>1 DEF QueueCounts, QueueTyped, Becomes
  <2>2. Queued' = Queued
    BY <1>1 DEF QueueCounts, QueueTyped, Becomes, Queued
  <2> QED
    BY <1>1, <2>1, <2>2, NothingQueued
<1>2. ASSUME NEW l \in Listen, SubmitListen(l) \/ ServiceTakes(l) \/ SubmitSucceeds(l)
      PROVE  QueueCounts'
  <2>1. doubtful' \subseteq Listen
    BY <1>2 DEF SubmitListen, ServiceTakes, SubmitSucceeds, QueueCounts, QueueTyped
  <2>2. /\ UNCHANGED <<queued, lastId, flushing, flushTook>> /\ command[l] # "queued"
        /\ \E d \in {"sending", "taken", "done", "lost"} : Becomes(l, d)
    BY <1>2 DEF SubmitListen, ServiceTakes, SubmitSucceeds
  <2> QED
    BY <1>1, <2>1, <2>2
<1>3. ASSUME NEW l \in Listen, SubmitFails(l)
      PROVE  QueueCounts'
  <2>1. CASE Becomes(l, "lost") /\ UNCHANGED <<queued, lastId>>
    <3>1. doubtful' \subseteq Listen
      BY <1>3 DEF SubmitFails, QueueCounts, QueueTyped
    <3>2. command[l] # "queued" /\ UNCHANGED <<flushing, flushTook>>
      BY <1>3 DEF SubmitFails
    <3> QED
      BY <1>1, <2>1, <3>1, <3>2
  <2>2. CASE /\ Becomes(l, "queued") /\ lastId' = lastId + 1
             /\ queued' = queued \cup {[id |-> lastId', of |-> l, attempts |-> 0]}
    BY <1>3, <2>2, QueueAddCounts DEF SubmitFails
  <2> QED
    BY <1>3, <2>1, <2>2 DEF SubmitFails
<1>4. ASSUME NEW f \in Flushes, FlushedListenTaken(f)
      PROVE  QueueCounts'
  <2>1. /\ flushTook' = [flushTook EXCEPT ![f] = TRUE]
        /\ UNCHANGED <<queued, lastId, command, flushing, doubtful>>
    BY <1>4 DEF FlushedListenTaken
  <2>2. QueueTyped' /\ Queued' = Queued
    BY <2>1 DEF QueueCounts, QueueTyped, Queued
  <2> QED
    BY <2>1, <2>2, NothingQueued
<1>5. CASE RestartBackend
  <2>1. /\ command' = [l \in Listen |-> IF command[l] \in {"sending", "taken"} THEN "lost"
                                        ELSE command[l]]
        /\ doubtful' = doubtful \cup {Current(f).of : f \in {g \in Flushes : flushTook[g]}}
        /\ flushing' = [f \in Flushes |-> {}] /\ flushTook' = [f \in Flushes |-> FALSE]
        /\ UNCHANGED <<queued, lastId>>
    BY <1>5 DEF RestartBackend
  <2>2. \A f \in Flushes : flushTook[f] => Current(f).of \in Listen
    BY CurrentIsRead DEF QInv, TookOK
  <2>3. doubtful' \subseteq Listen
    BY <2>1, <2>2 DEF QueueCounts, QueueTyped
  <2>4. QueueTyped' /\ Queued' = Queued
    BY <2>1, <2>3 DEF QueueCounts, QueueTyped, Queued
  <2>5. \A f \in Flushes : flushing'[f] \subseteq flushing[f]
    BY <2>1
  <2> QED
    BY <2>1, <2>4, <2>5, NothingQueued
<1>6. CASE UNCHANGED queueVars
  BY <1>6 DEF queueVars, QueueCounts, QueueTyped, Queued, Reading, Flushes
<1> QED
  BY <1>2, <1>3, <1>4, <1>5, <1>6, StartFlushCounts, AnswerCounts DEF ScrobbleQueueNext

\* scrobble.rs: every state of the queue has its types: no id is used for two
\* listens, and flushes that overlap try a row at most once each beyond the limit.
THEOREM ScrobbleQueueTypeCorrect == ScrobbleQueueSpec => []ScrobbleQueueTypeOK
<1>1. QInv /\ QueueCounts => ScrobbleQueueTypeOK
  <2> SUFFICES ASSUME QInv, QueueCounts PROVE ScrobbleQueueTypeOK
    OBVIOUS
  <2>1. lastId \in 0..Cardinality(Listen)
    <3>1. Queued \subseteq Listen /\ IsFiniteSet(Listen)
      BY ScrobbleQueueAssumption DEF Queued
    <3>2. /\ Cardinality(Queued) <= Cardinality(Listen) /\ Cardinality(Listen) \in Nat
      BY <3>1, FS_Subset, FS_CardinalityType
    <3>3. lastId \in Nat /\ lastId = Cardinality(Queued)
      BY DEF QInv, RowsOK, QueueCounts
    <3> QED
      BY <3>2, <3>3
  <2>2. queued \subseteq [id : 1..lastId, of : Listen, attempts : 0..(MaxAttempts + MaxFlushes)]
    <3> SUFFICES ASSUME NEW r \in queued
                 PROVE  r \in [id : 1..lastId, of : Listen, attempts : 0..(MaxAttempts + MaxFlushes)]
      OBVIOUS
    <3>1. r \in [id : 1..lastId, of : Listen, attempts : Nat]
      BY DEF QInv, RowsOK
    <3>2. Reading(r.id) \in SUBSET Flushes
      BY DEF Reading, Flushes
    <3>3. Cardinality(Reading(r.id)) \in Nat
      BY <3>2, ReadersFew
    <3>4. r.attempts + Cardinality(Reading(r.id)) <= MaxAttempts + MaxFlushes
      BY DEF QueueCounts
    <3>5. r.attempts \in 0..(MaxAttempts + MaxFlushes)
      BY <3>1, <3>3, <3>4, ScrobbleQueueAssumption
    <3> QED
      BY <3>1, <3>5
  <2>3. flushing \in [Flushes -> SUBSET [id : 1..lastId, of : Listen]]
    <3>1. \A f \in Flushes : flushing[f] \subseteq [id : 1..lastId, of : Listen]
      BY DEF QInv, FlushesOK, Row
    <3> QED
      BY <3>1 DEF QueueCounts, QueueTyped
  <2> QED
    BY <2>1, <2>2, <2>3 DEF QueueCounts, QueueTyped, QInv, CommandsOK, ScrobbleQueueTypeOK
<1> QED
  BY <1>1, QueueStart, RowsStep, QueueCountsStart, QueueCountsStep, PTL DEF ScrobbleQueueSpec
=============================================================================
