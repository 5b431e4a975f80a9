------------------------- MODULE RelaySession_proofs -------------------------
(***************************************************************************)
(* Proofs about RelaySession, for any number of devices and requests.      *)
(*                                                                         *)
(* Locked out: the list of revoked devices only grows, so a device that    *)
(* was on it when it made a request is on it when the relay looks, and the *)
(* relay looks there first (LateOK).                                       *)
(*                                                                         *)
(* One writer: the session only moves to greater versions, so a write that *)
(* the relay accepted is below the session, or is the session (WritersOK). *)
(*                                                                         *)
(* Commands: the invariant says where a command may be and that those in   *)
(* the queue were taken last (CInv).                                       *)
(*                                                                         *)
(* Reads: what was acknowledged is not newer than what is stored (SInv).   *)
(***************************************************************************)
EXTENDS RelaySession, FiniteSetTheorems, SequenceTheorems, WellFoundedInduction, TLAPS

\* The relay has accepted the session that r brings.
Accepted(r) == phase[r] = "done" /\ req[r].op = "putSession"

Write(r) == [version |-> req[r].arg, by |-> req[r].signer]

\* w is a write that the relay accepted, acknowledged or not
Writer(w) == w \in written \/ \E r \in Request : Accepted(r) /\ w = Write(r)

ShapeOK ==
    /\ DOMAIN req = Request /\ DOMAIN phase = Request
    /\ session.version \in Nat
    /\ \A w \in written : w.version \in Nat
    /\ \A r \in Request : req[r].op = "putSession" => req[r].arg \in Nat

LateOK ==
    \A r \in Request :
        /\ req[r].late => req[r].signer \in manifest.revoked
        /\ phase[r] \in {"checked", "authorized", "done"} => ~ req[r].late

WritersOK ==
    /\ \A w : Writer(w) => /\ w.version <= session.version
                           /\ w.version = session.version => w.by = session.by
    /\ \A v, w : Writer(v) /\ Writer(w) /\ v.version = w.version => v.by = w.by

RInv ==
    /\ WellFormed(manifest)
    /\ ShapeOK
    /\ LateOK
    /\ WritersOK

-----------------------------------------------------------------------------
(* A change of the manifest forgets no revocation and keeps the manifest   *)
(* well formed.                                                            *)
LEMMA RevokedGrows ==
    ASSUME WellFormed(manifest), Next
    PROVE  WellFormed(manifest') /\ manifest.revoked \subseteq manifest'.revoked
<1> USE DEF WellFormed, Manifest, Exists, Known, NoManifest
<1>1. CASE Create
  BY <1>1, CreatorAssumption DEF Create, FirstManifest
<1>2. ASSUME NEW k \in SubKey, AddDevice(k)
      PROVE  WellFormed(manifest') /\ manifest.revoked \subseteq manifest'.revoked
  BY <1>2 DEF AddDevice, WithDevice
<1>3. ASSUME NEW k \in SubKey, RevokeDevice(k)
      PROVE  WellFormed(manifest') /\ manifest.revoked \subseteq manifest'.revoked
  BY <1>3 DEF RevokeDevice, WithoutDevice
<1> QED
  BY <1>1, <1>2, <1>3 DEF Next

\* The relay starts empty.
LEMMA StartOK == SessionInit => RInv
<1> SUFFICES ASSUME SessionInit PROVE RInv
  OBVIOUS
<1> USE DEF SessionInit
<1>1. WellFormed(manifest)
  BY CreatorAssumption DEF WellFormed, Manifest, FirstManifest, NoManifest, Exists
<1>2. ShapeOK
  BY DEF ShapeOK, NoSession, Idle
<1>3. LateOK
  BY DEF LateOK, Idle
<1>4. WritersOK
  BY DEF WritersOK, Writer, Accepted
<1> QED
  BY <1>1, <1>2, <1>3, <1>4 DEF RInv

(* A step that accepts no session and lets the relay acknowledge only what *)
(* it accepted keeps the writers in order.                                 *)
LEMMA NoNewWriter ==
    ASSUME WritersOK, session' = session, \A w : Writer(w)' => Writer(w)
    PROVE  WritersOK'
  BY DEF WritersOK

\* A device signs and sends a request.
LEMMA SendKeeps ==
    ASSUME RInv, NEW r \in Request, NEW d \in SubKey, NEW op, NEW arg,
           Send(r, d, op, arg), op = "putSession" => arg \in Nat
    PROVE  RInv'
<1> USE DEF Send, RInv
<1>1. WellFormed(manifest)'
  BY DEF WellFormed, Manifest, Exists, NoManifest
<1>2. ShapeOK'
  BY DEF ShapeOK, store
<1>3. LateOK'
  BY DEF LateOK, ShapeOK
<1>4. ASSUME NEW w, Writer(w)' PROVE Writer(w)
  BY <1>4 DEF Writer, Accepted, Write, ShapeOK
<1>5. WritersOK'
  BY <1>4, NoNewWriter DEF store
<1> QED
  BY <1>1, <1>2, <1>3, <1>5

(* A step of a request that has not been answered yet, to a phase other    *)
(* than "done".                                                            *)
LEMMA MoveKeeps ==
    ASSUME RInv, NEW r \in Request, NEW p \in {"refused", "checked", "authorized"},
           Goto(r, p), UNCHANGED <<manifest, session, req, written>>,
           p # "refused" => ~ req[r].late
    PROVE  RInv'
<1> USE DEF RInv, Goto
<1>1. WellFormed(manifest)'
  BY DEF WellFormed, Manifest, Exists, NoManifest
<1>2. ShapeOK'
  BY DEF ShapeOK
<1>3. LateOK'
  BY DEF LateOK, ShapeOK
<1>4. ASSUME NEW w, Writer(w)' PROVE Writer(w)
  BY <1>4 DEF Writer, Accepted, Write, ShapeOK
<1>5. WritersOK'
  BY <1>4, NoNewWriter
<1> QED
  BY <1>1, <1>2, <1>3, <1>5

(* The relay answers a request that brings no session.                     *)
LEMMA AnswerKeeps ==
    ASSUME RInv, NEW r \in Request, phase[r] = "authorized", Goto(r, "done"),
           UNCHANGED <<manifest, session, req, written>>, req[r].op # "putSession"
    PROVE  RInv'
<1> USE DEF RInv, Goto
<1>1. WellFormed(manifest)'
  BY DEF WellFormed, Manifest, Exists, NoManifest
<1>2. ShapeOK'
  BY DEF ShapeOK
<1>3. LateOK'
  BY DEF LateOK, ShapeOK
<1>4. ASSUME NEW w, Writer(w)' PROVE Writer(w)
  BY <1>4 DEF Writer, Accepted, Write, ShapeOK
<1>5. WritersOK'
  BY <1>4, NoNewWriter
<1> QED
  BY <1>1, <1>2, <1>3, <1>5

(* A newer session is accepted: nobody wrote that version before.          *)
LEMMA PutSessionKeeps ==
    ASSUME RInv, NEW r \in Request, PutSession(r)
    PROVE  RInv'
<1> USE DEF PutSession, Serve, AnswerWith, Goto
<1>1. CASE ~ NewerSession(req[r].arg)
  BY <1>1, MoveKeeps
<1>2. CASE NewerSession(req[r].arg)
  <2> USE <1>2 DEF RInv
  <2>1. WellFormed(manifest)'
    BY DEF WellFormed, Manifest, Exists, NoManifest
  <2>2. ShapeOK'
    BY DEF ShapeOK
  <2>3. LateOK'
    BY DEF LateOK, ShapeOK
  <2>4. ASSUME NEW w, Writer(w)' PROVE Writer(w) \/ w = Write(r)
    BY <2>4 DEF Writer, Accepted, Write, ShapeOK
  <2>5. Write(r).version = session'.version /\ Write(r).by = session'.by
    BY DEF Write
  <2>6. ASSUME NEW w, Writer(w)
        PROVE  w.version \in Nat /\ w.version < session'.version
    BY <2>6 DEF Writer, WritersOK, ShapeOK, NewerSession, Accepted, Write
  <2>7. session'.version \in Nat
    BY DEF ShapeOK
  <2>8. WritersOK'
    BY <2>4, <2>5, <2>6, <2>7 DEF WritersOK
  <2> QED
    BY <2>1, <2>2, <2>3, <2>8
<1> QED
  BY <1>1, <1>2

(* A request slot becomes free; its write may be acknowledged.             *)
LEMMA FreeKeeps ==
    ASSUME RInv, NEW r \in Request, Free(r),
           \A w \in written' : w \in written \/ (Accepted(r) /\ w = Write(r))
    PROVE  RInv'
<1> USE DEF Free, Goto, RInv, Idle, store
<1>1. WellFormed(manifest)'
  BY DEF WellFormed, Manifest, Exists, NoManifest
<1>2. ShapeOK'
  BY DEF ShapeOK, Accepted, Write
<1>3. LateOK'
  BY DEF LateOK, ShapeOK
<1>4. ASSUME NEW w, Writer(w)' PROVE Writer(w)
  BY <1>4 DEF Writer, Accepted, Write, ShapeOK
<1>5. WritersOK'
  BY <1>4, NoNewWriter
<1> QED
  BY <1>1, <1>2, <1>3, <1>5

\* A handler serves a request that has passed both checks.
LEMMA HandleKeeps ==
    ASSUME RInv, NEW r \in Request, Handle(r)
    PROVE  RInv'
<1>1. CASE AuthorizeActive(r)
  <2> USE <1>1 DEF AuthorizeActive, store
  <2>1. CASE phase[r] = "sent"
    BY <2>1, MoveKeeps DEF RInv, LateOK
  <2>2. CASE phase[r] = "checked"
    BY <2>2, MoveKeeps DEF RInv, LateOK
  <2> QED
    BY <2>1, <2>2
<1>2. CASE PutSession(r)
  BY <1>2, PutSessionKeeps
<1>3. CASE GetSession(r)
  BY <1>3, AnswerKeeps DEF GetSession, Serve, AnswerWith, store
<1>4. CASE EnqueueCommand(r)
  BY <1>4, AnswerKeeps DEF EnqueueCommand, Serve, AnswerWith
<1>5. CASE DrainCommands(r)
  BY <1>5, AnswerKeeps DEF DrainCommands, Serve, AnswerWith
<1>6. CASE PutBlob(r)
  BY <1>6, AnswerKeeps DEF PutBlob, Serve, AnswerWith
<1>7. CASE GetLatestBlob(r)
  BY <1>7, AnswerKeeps DEF GetLatestBlob, Serve, AnswerWith, store
<1> QED
  BY <1>1, <1>2, <1>3, <1>4, <1>5, <1>6, <1>7 DEF Handle

\* A request is authorized, served, answered or lost.
LEMMA RequestKeeps ==
    ASSUME RInv, NEW r \in Request, NEW d \in SubKey,
           \/ SessionTick(r, d) \/ CommandTick(r, d)
           \/ \E c \in Command : SendCommand(r, d, c)
           \/ SyncUp(r, d) \/ SyncDown(r, d)
    PROVE  RInv'
<1>1. CASE SessionTick(r, d)
  <2>1. 1..MaxSession \subseteq Nat
    BY RelayAssumption
  <2> QED
    BY <1>1, <2>1, SendKeeps DEF SessionTick
<1>2. CASE CommandTick(r, d)
  BY <1>2, SendKeeps DEF CommandTick
<1>3. CASE \E c \in Command : SendCommand(r, d, c)
  BY <1>3, SendKeeps DEF SendCommand
<1>4. CASE SyncUp(r, d)
  BY <1>4, SendKeeps DEF SyncUp
<1>5. CASE SyncDown(r, d)
  BY <1>5, SendKeeps DEF SyncDown
<1> QED
  BY <1>1, <1>2, <1>3, <1>4, <1>5

(* Steps that leave alone all that RInv speaks of.                         *)
LEMMA StutterKeeps ==
    ASSUME RInv, UNCHANGED <<manifest, session, phase, req, written>>
    PROVE  RInv'
<1> USE DEF RInv
<1>1. WellFormed(manifest)'
  BY DEF WellFormed, Manifest, Exists, NoManifest
<1>2. ShapeOK' /\ LateOK'
  BY DEF ShapeOK, LateOK
<1>3. WritersOK'
  BY NoNewWriter DEF Writer, Accepted, Write
<1> QED
  BY <1>1, <1>2, <1>3

\* Every step keeps RInv.
LEMMA StepKeeps == RInv /\ [SessionNext]_sessionVars => RInv'
<1> SUFFICES ASSUME RInv, [SessionNext]_sessionVars PROVE RInv'
  OBVIOUS
<1>1. CASE ChangeManifest
  <2> USE <1>1 DEF ChangeManifest, store, calls, RInv
  <2>1. WellFormed(manifest') /\ manifest.revoked \subseteq manifest'.revoked
    BY RevokedGrows
  <2>2. WellFormed(manifest)'
    BY <2>1 DEF WellFormed, Manifest, Exists, NoManifest
  <2>3. ShapeOK' /\ LateOK'
    BY <2>1 DEF ShapeOK, LateOK
  <2>4. WritersOK'
    BY NoNewWriter DEF Writer, Accepted, Write
  <2> QED
    BY <2>2, <2>3, <2>4
<1>2. ASSUME NEW r \in Request, NEW d \in SubKey,
             \/ SessionTick(r, d) \/ CommandTick(r, d)
             \/ \E c \in Command : SendCommand(r, d, c)
             \/ SyncUp(r, d) \/ SyncDown(r, d)
      PROVE  RInv'
  BY <1>2, RequestKeeps
<1>3. ASSUME NEW r \in Request, Handle(r) PROVE RInv'
  BY <1>3, HandleKeeps
<1>4. ASSUME NEW r \in Request, Return(r) PROVE RInv'
  BY <1>4, FreeKeeps DEF Return, Got, Accepted, Write
<1>5. ASSUME NEW r \in Request, GiveUp(r) PROVE RInv'
  BY <1>5, StutterKeeps DEF GiveUp, store
<1>6. ASSUME NEW r \in Request, LoseRequest(r) PROVE RInv'
  BY <1>6, FreeKeeps DEF LoseRequest
<1>7. CASE UNCHANGED sessionVars
  BY <1>7, StutterKeeps DEF sessionVars, store, calls
<1> QED
  BY <1>1, <1>2, <1>3, <1>4, <1>5, <1>6, <1>7 DEF SessionNext

\* relay/server.go: RInv in every reachable state: a request whose signer was revoked
\* before it is not served, and every session accepted has at most the session's version.
THEOREM SessionInvariance == SessionSpec => []RInv
<1> QED
  BY StartOK, StepKeeps, PTL DEF SessionSpec

(* Whoever was revoked before making a request is never served (the checks *)
(* of authorizeActive, relay/server.go).                                   *)
THEOREM RevokedIsLockedOut == SessionSpec => []RevokedLockedOut
<1>1. RInv => RevokedLockedOut
  BY DEF RInv, LateOK, RevokedLockedOut
<1> QED
  BY <1>1, SessionInvariance, PTL

(* No two devices are both told that they published the same session       *)
(* version (MemStore.PutSession, relay/store.go).                          *)
THEOREM OneWriter == SessionSpec => []OneWriterPerVersion
<1>1. RInv => OneWriterPerVersion
  BY DEF RInv, WritersOK, Writer, OneWriterPerVersion
<1> QED
  BY <1>1, SessionInvariance, PTL

-----------------------------------------------------------------------------
(* A finite, nonempty set of integers has a greatest element: the set of   *)
(* those above x is smallest for the greatest x, and sets ordered by       *)
(* strict inclusion are well founded.                                      *)
LEMMA MaxProperties ==
    ASSUME NEW S \in SUBSET Int, IsFiniteSet(S), S # {}
    PROVE  Max(S) \in S /\ \A y \in S : y <= Max(S)
<1> DEFINE Above(x) == {y \in S : y > x}
           F == {Above(x) : x \in S}
<1>1. F \subseteq FiniteSubsetsOf(S)
  BY FS_Subset DEF FiniteSubsetsOf
<1>2. PICK U \in F : \A V \in F : <<V, U>> \notin StrictSubsetOrdering(S)
  <2>1. F # {}
    OBVIOUS
  <2> QED
    BY <1>1, <2>1, FS_StrictSubsetOrderingWellFounded, WFMin
<1>3. PICK x \in S : U = Above(x)
  OBVIOUS
<1>4. ASSUME NEW z \in Above(x) PROVE FALSE
  <2>1. x \in Int /\ z \in Int /\ z > x
    BY <1>4
  <2>2. z \notin Above(z) /\ z \in U
    BY <2>1, <1>3, <1>4
  <2>3. ASSUME NEW y \in Above(z) PROVE y \in U
    <3>1. y \in S /\ y \in Int /\ y > z
      OBVIOUS
    <3> QED
      BY <3>1, <2>1, <1>3
  <2>4. <<Above(z), U>> \in StrictSubsetOrdering(S)
    BY <2>2, <2>3, <1>3 DEF StrictSubsetOrdering
  <2> QED
    BY <2>4, <1>2, <1>4
<1>5. \A y \in S : x >= y
  BY <1>4
<1> QED
  BY <1>5 DEF Max

(* Max of a pair is one of the two and not less than either.               *)
LEMMA MaxOfTwo ==
    ASSUME NEW a \in Int, NEW b \in Int
    PROVE  /\ Max({a, b}) \in {a, b}
           /\ a <= Max({a, b}) /\ b <= Max({a, b})
  BY DEF Max

(* The elements of a sequence with one more at its end.                    *)
LEMMA ToSetAppend ==
    ASSUME NEW S, NEW s \in Seq(S), NEW x \in S
    PROVE  /\ Append(s, x) \in Seq(S)
           /\ ToSet(Append(s, x)) = ToSet(s) \cup {x}
<1>1. /\ Append(s, x) \in Seq(S)
      /\ DOMAIN Append(s, x) = 1..(Len(s) + 1) /\ DOMAIN s = 1..Len(s) /\ Len(s) \in Nat
      /\ \A i \in 1..Len(s) : Append(s, x)[i] = s[i]
      /\ Append(s, x)[Len(s) + 1] = x
  OBVIOUS
<1>2. 1..(Len(s) + 1) = 1..Len(s) \cup {Len(s) + 1}
  BY <1>1
<1>3. ASSUME NEW i \in DOMAIN Append(s, x)
      PROVE  Append(s, x)[i] \in ToSet(s) \cup {x}
  BY <1>1, <1>2 DEF ToSet
<1>4. ASSUME NEW i \in DOMAIN s PROVE s[i] \in ToSet(Append(s, x))
  BY <1>1, <1>2 DEF ToSet
<1>5. x \in ToSet(Append(s, x))
  BY <1>1, <1>2 DEF ToSet
<1> QED
  BY <1>1, <1>3, <1>4, <1>5, Zenon DEF ToSet

(* The elements of two sequences, one after the other.                     *)
LEMMA ToSetConcat ==
    ASSUME NEW S, NEW s \in Seq(S), NEW t \in Seq(S)
    PROVE  /\ s \o t \in Seq(S)
           /\ ToSet(s \o t) = ToSet(s) \cup ToSet(t)
<1>1. s \o t \in Seq(S)
  OBVIOUS
<1>2. ASSUME NEW i \in DOMAIN (s \o t) PROVE (s \o t)[i] \in ToSet(s) \cup ToSet(t)
  <2>1. CASE i <= Len(s)
    BY <2>1, i \in DOMAIN s DEF ToSet
  <2>2. CASE i > Len(s)
    BY <2>2, i - Len(s) \in DOMAIN t DEF ToSet
  <2> QED
    BY <2>1, <2>2
<1>3. ASSUME NEW i \in DOMAIN s PROVE s[i] \in ToSet(s \o t)
  BY i \in DOMAIN (s \o t), (s \o t)[i] = s[i] DEF ToSet
<1>4. ASSUME NEW i \in DOMAIN t PROVE t[i] \in ToSet(s \o t)
  <2>1. Len(s) + i \in DOMAIN (s \o t) /\ (s \o t)[Len(s) + i] = t[i]
    OBVIOUS
  <2> QED
    BY <2>1 DEF ToSet
<1>5. ToSet(s \o t) = ToSet(s) \cup ToSet(t)
  BY <1>2, <1>3, <1>4, Zenon DEF ToSet
<1> QED
  BY <1>1, <1>5
-----------------------------------------------------------------------------
(* Remote commands. A command is in a request, then in the queue, then in  *)
(* one answer, then with one device or lost (PlaceOK); the queue and each  *)
(* answer hold commands in the order the relay took them, what left the    *)
(* queue was taken before what is in it, and what a device was handed was  *)
(* taken before what is on the way to it (OrderOK). The latter needs that  *)
(* an installation waits for one request at a time (OneWaits).             *)

Unserved(r) == phase[r] \in {"sent", "checked", "authorized"}

Bringing(r) == Unserved(r) /\ req[r].op = "postCommand"

CommandTypeOK ==
    /\ phase \in [Request -> Phases] /\ waiting \in [Request -> BOOLEAN]
    /\ DOMAIN req = Request /\ DOMAIN answer = Request
    /\ \A r \in Request : /\ req[r].op \in AllOps /\ req[r].signer \in SubKey
                          /\ answer[r].cmds \in Seq(Command)
    /\ commands \in Seq(Command) /\ accepted \in Seq(Command)
    /\ given \in [SubKey -> Seq(Command)]
    /\ sent \subseteq Command /\ lost \subseteq Command

SentOK ==
    /\ ToSet(accepted) \subseteq sent
    /\ \A r \in Request :
        Bringing(r) => req[r].arg \in sent /\ req[r].arg \notin ToSet(accepted)
    /\ \A r, s \in Request :
        Bringing(r) /\ Bringing(s) /\ r # s => req[r].arg # req[s].arg

OneWaits ==
    \A r, s \in Request :
        waiting[r] /\ waiting[s] /\ req[r].signer = req[s].signer => r = s

AnswersOK ==
    \A r \in Request :
        answer[r].cmds # <<>> => phase[r] = "done" /\ req[r].op = "pullCommands"

PlaceOK ==
    /\ IsInjective(accepted)
    /\ ToSet(accepted) = ToSet(commands) \cup Underway \cup AllGiven \cup lost
    /\ ToSet(commands) \cap (Underway \cup AllGiven \cup lost) = {}
    /\ Underway \cap (AllGiven \cup lost) = {} /\ AllGiven \cap lost = {}
    /\ \A r, s \in Request : r # s => InAnswer(r) \cap InAnswer(s) = {}
    /\ \A d, e \in SubKey : d # e => ToSet(given[d]) \cap ToSet(given[e]) = {}

OrderOK ==
    /\ InOrder(commands)
    /\ \A r \in Request : InOrder(answer[r].cmds)
    /\ \A d \in SubKey : InOrder(given[d])
    /\ \A c \in ToSet(accepted) \ ToSet(commands), e \in ToSet(commands) : Before(c, e)
    /\ \A r \in Request : waiting[r] =>
        \A c \in ToSet(given[req[r].signer]), e \in InAnswer(r) : Before(c, e)

CInv ==
    /\ CommandTypeOK
    /\ SentOK
    /\ OneWaits
    /\ AnswersOK
    /\ PlaceOK
    /\ OrderOK

-----------------------------------------------------------------------------
(* The empty sequence has no elements.                                     *)
LEMMA ToSetEmpty == ToSet(<<>>) = {}
  BY DEF ToSet

(* A command is under way if it is in some answer.                         *)
LEMMA InUnderway == \A c : c \in Underway <=> \E r \in Request : c \in InAnswer(r)
  BY DEF Underway

(* A command was given if it was given to some device.                     *)
LEMMA InAllGiven == \A c : c \in AllGiven <=> \E d \in SubKey : c \in ToSet(given[d])
  BY DEF AllGiven

(* Sequences in order, the first before the second, are in order.          *)
LEMMA InOrderConcat ==
    ASSUME NEW s \in Seq(Command), NEW t \in Seq(Command), InOrder(s), InOrder(t),
           \A c \in ToSet(s), e \in ToSet(t) : Before(c, e)
    PROVE  InOrder(s \o t)
<1> SUFFICES ASSUME NEW i \in DOMAIN (s \o t), NEW j \in DOMAIN (s \o t), i < j
             PROVE  Before((s \o t)[i], (s \o t)[j])
  BY Zenon DEF InOrder
<1>1. CASE j <= Len(s)
  <2>1. i \in DOMAIN s /\ j \in DOMAIN s /\ (s \o t)[i] = s[i] /\ (s \o t)[j] = s[j]
    BY <1>1
  <2> QED
    BY <2>1, Zenon DEF InOrder
<1>2. CASE i <= Len(s) /\ j > Len(s)
  <2>1. /\ i \in DOMAIN s /\ (s \o t)[i] = s[i]
        /\ j - Len(s) \in DOMAIN t /\ (s \o t)[j] = t[j - Len(s)]
    BY <1>2
  <2>2. s[i] \in ToSet(s) /\ t[j - Len(s)] \in ToSet(t)
    BY <2>1, Zenon DEF ToSet
  <2> QED
    BY <2>1, <2>2, Zenon
<1>3. CASE i > Len(s)
  <2>1. /\ i - Len(s) \in DOMAIN t /\ (s \o t)[i] = t[i - Len(s)]
        /\ j - Len(s) \in DOMAIN t /\ (s \o t)[j] = t[j - Len(s)]
        /\ i - Len(s) < j - Len(s)
    BY <1>3
  <2> QED
    BY <2>1, Zenon DEF InOrder
<1> QED
  BY <1>1, <1>2, <1>3

(* Steps that bring no new command to the relay.                           *)
LEMMA SentKept ==
    ASSUME SentOK, accepted' = accepted, sent' = sent,
           \A s \in Request : Bringing(s)' => Bringing(s) /\ req'[s] = req[s]
    PROVE  SentOK'
  BY DEF SentOK

(* Steps by which nobody starts to wait.                                   *)
LEMMA WaitKept ==
    ASSUME OneWaits,
           \A s \in Request : waiting'[s] => waiting[s] /\ req'[s] = req[s]
    PROVE  OneWaits'
  BY DEF OneWaits

(* CInv holds at first.                                                    *)
LEMMA CommandStart == SessionInit => CInv
<1> SUFFICES ASSUME SessionInit PROVE CInv
  OBVIOUS
<1> USE DEF SessionInit
<1>1. CommandTypeOK
  <2>1. <<>> \in Seq(Command)
    OBVIOUS
  <2>2. Idle.op \in AllOps /\ Idle.signer \in SubKey /\ NoAnswer.cmds = <<>>
    BY CreatorAssumption DEF Idle, NoAnswer, AllOps
  <2>3. "free" \in Phases
    BY DEF Phases
  <2> QED
    BY <2>1, <2>2, <2>3 DEF CommandTypeOK
<1>2. SentOK /\ OneWaits /\ AnswersOK
  BY ToSetEmpty DEF SentOK, OneWaits, AnswersOK, Bringing, Unserved, NoAnswer
<1>3. \A r \in Request : InAnswer(r) = {}
  BY ToSetEmpty DEF InAnswer, NoAnswer
<1>4. Underway = {} /\ AllGiven = {}
  BY <1>3, ToSetEmpty, InUnderway, InAllGiven
<1>5. PlaceOK
  BY <1>3, <1>4, ToSetEmpty DEF PlaceOK, IsInjective
<1>6. OrderOK
  BY <1>3, ToSetEmpty DEF OrderOK, InOrder, NoAnswer
<1> QED
  BY <1>1, <1>2, <1>5, <1>6 DEF CInv

(* Steps that move no command.                                             *)
LEMMA QuietKeeps ==
    ASSUME PlaceOK, OrderOK,
           UNCHANGED <<commands, accepted, given, lost>>,
           \A r \in Request : answer'[r].cmds = answer[r].cmds,
           \A r \in Request : waiting'[r] =>
               \/ answer[r].cmds = <<>>
               \/ waiting[r] /\ req'[r].signer = req[r].signer
    PROVE  PlaceOK' /\ OrderOK'
<1>1. \A r \in Request : InAnswer(r)' = InAnswer(r)
  BY DEF InAnswer
<1>2. Underway' = Underway /\ AllGiven' = AllGiven
  BY <1>1 DEF Underway, AllGiven
<1>3. PlaceOK'
  BY <1>1, <1>2 DEF PlaceOK
<1>4. \A c, e : Before(c, e)' <=> Before(c, e)
  BY DEF Before
<1>5. \A s : InOrder(s)' <=> InOrder(s)
  BY <1>4 DEF InOrder
<1>6. \A r \in Request : InOrder(answer[r].cmds)'
  BY <1>4 DEF InOrder, OrderOK
<1>7. InOrder(commands)' /\ \A d \in SubKey : InOrder(given[d])'
  BY <1>4 DEF InOrder, OrderOK
<1>8. ASSUME NEW r \in Request, waiting'[r],
             NEW c \in ToSet(given[req'[r].signer]), NEW e \in InAnswer(r)
      PROVE  Before(c, e)
  BY <1>8, ToSetEmpty DEF OrderOK, InAnswer
<1>9. OrderOK'
  BY <1>1, <1>4, <1>6, <1>7, <1>8 DEF OrderOK
<1> QED
  BY <1>3, <1>9

(* The relay moves a request that it has not answered yet on, and moves no *)
(* command.                                                                *)
LEMMA ProgressKeeps ==
    ASSUME CInv, NEW r \in Request, Unserved(r), NEW p \in Phases \ {"free", "sent"},
           Bringing(r) => p # "done",
           Goto(r, p), UNCHANGED <<req, waiting, sent, commands, accepted, given, lost>>,
           DOMAIN answer' = Request,
           \A s \in Request : answer'[s].cmds = answer[s].cmds
    PROVE  CInv'
<1> USE DEF CInv, Goto
<1>1. CommandTypeOK'
  BY DEF CommandTypeOK
<1>2. \A s \in Request : Bringing(s)' => Bringing(s)
  BY DEF Bringing, Unserved, CommandTypeOK
<1>3. SentOK'
  BY <1>2 DEF SentOK
<1>4. OneWaits'
  BY DEF OneWaits
<1>5. AnswersOK'
  BY DEF AnswersOK, Unserved, CommandTypeOK
<1>6. PlaceOK' /\ OrderOK'
  BY QuietKeeps
<1> QED
  BY <1>1, <1>3, <1>4, <1>5, <1>6

(* An installation makes a request; if it brings a command, that was never *)
(* sent before.                                                            *)
LEMMA NewRequestKeeps ==
    ASSUME CInv, NEW r \in Request, NEW d \in SubKey, NEW op \in AllOps, NEW arg,
           Send(r, d, op, arg),
           \/ op # "postCommand" /\ sent' = sent
           \/ arg \in Command \ sent /\ sent' = sent \cup {arg}
    PROVE  CInv'
<1> USE DEF CInv, Send, store
<1>1. CommandTypeOK'
  BY DEF CommandTypeOK, Phases
<1>2. \A s \in Request \ {r} : /\ req'[s] = req[s] /\ phase'[s] = phase[s]
                               /\ waiting'[s] = waiting[s]
  BY DEF CommandTypeOK
<1>3. req'[r].op = op /\ req'[r].arg = arg /\ req'[r].signer = d
  BY DEF CommandTypeOK
<1>4. \A s \in Request \ {r} : Bringing(s)' => Bringing(s)
  BY <1>2 DEF Bringing, Unserved
<1>5. Bringing(r)' => arg \in sent' \ sent
  BY <1>3 DEF Bringing
<1>6. SentOK'
  BY <1>2, <1>3, <1>4, <1>5 DEF SentOK
<1>7. OneWaits'
  BY <1>2, <1>3 DEF OneWaits, Busy
<1>8. answer[r].cmds = <<>>
  BY DEF AnswersOK
<1>9. AnswersOK'
  BY <1>2, <1>8 DEF AnswersOK
<1>10. PlaceOK' /\ OrderOK'
  BY <1>2, <1>8, QuietKeeps
<1> QED
  BY <1>1, <1>6, <1>7, <1>9, <1>10

(* The relay takes a command and puts it behind all others.                *)
LEMMA EnqueueKeeps ==
    ASSUME CInv, NEW r \in Request, EnqueueCommand(r)
    PROVE  CInv'
<1> USE DEF CInv, EnqueueCommand, Serve, AnswerWith, Goto
<1> DEFINE c == req[r].arg
<1>1. Bringing(r)
  BY DEF Bringing, Unserved
<1>2. c \in Command /\ c \in sent /\ c \notin ToSet(accepted)
  BY <1>1 DEF SentOK, CommandTypeOK
<1>3. ToSet(accepted') = ToSet(accepted) \cup {c} /\ accepted' \in Seq(Command)
  BY <1>2, ToSetAppend DEF CommandTypeOK
<1>4. ToSet(commands') = ToSet(commands) \cup {c} /\ commands' \in Seq(Command)
  BY <1>2, ToSetAppend DEF CommandTypeOK
<1>5. \A s \in Request : answer'[s].cmds = answer[s].cmds
  BY DEF AnswersOK, CommandTypeOK
<1>6. CommandTypeOK'
  BY <1>3, <1>4, <1>5 DEF CommandTypeOK, Phases
<1>7. \A s \in Request : Bringing(s)' => s # r /\ Bringing(s)
  BY DEF Bringing, Unserved, CommandTypeOK
<1>8. SentOK'
  BY <1>1, <1>2, <1>3, <1>7 DEF SentOK
<1>9. OneWaits'
  BY DEF OneWaits
<1>10. AnswersOK'
  BY <1>5 DEF AnswersOK, CommandTypeOK
<1>11. /\ Len(accepted) \in Nat /\ DOMAIN accepted = 1..Len(accepted)
       /\ DOMAIN accepted' = 1..(Len(accepted) + 1)
       /\ \A i \in 1..Len(accepted) : accepted'[i] = accepted[i]
       /\ accepted'[Len(accepted) + 1] = c
  BY DEF CommandTypeOK
<1>12. \A i \in DOMAIN accepted : accepted[i] # c
  BY <1>2 DEF ToSet
<1>13. IsInjective(accepted')
  BY <1>11, <1>12 DEF IsInjective, PlaceOK
<1>14. /\ \A s \in Request : InAnswer(s)' = InAnswer(s)
       /\ Underway' = Underway /\ AllGiven' = AllGiven
  BY <1>5 DEF InAnswer, Underway, AllGiven
<1>15. PlaceOK'
  <2>1. c \notin Underway \cup AllGiven \cup lost
    BY <1>2 DEF PlaceOK
  <2>2. ToSet(accepted') = ToSet(commands') \cup Underway \cup AllGiven \cup lost
    BY <1>3, <1>4 DEF PlaceOK
  <2>3. ToSet(commands') \cap (Underway \cup AllGiven \cup lost) = {}
    BY <2>1, <1>4 DEF PlaceOK
  <2> QED
    BY <2>2, <2>3, <1>13, <1>14 DEF PlaceOK
<1>16. \A a, b : Before(a, b) => Before(a, b)'
  BY <1>11 DEF Before
<1>17. \A a \in ToSet(accepted) : Before(a, c)'
  <2> SUFFICES ASSUME NEW i \in DOMAIN accepted PROVE Before(accepted[i], c)'
    BY DEF ToSet
  <2>1. i \in DOMAIN accepted' /\ Len(accepted) + 1 \in DOMAIN accepted' /\ i < Len(accepted) + 1
    BY <1>11
  <2> QED
    BY <1>11, <2>1 DEF Before
<1>18. InOrder(commands)'
  <2> SUFFICES ASSUME NEW i \in DOMAIN commands', NEW j \in DOMAIN commands', i < j
               PROVE  Before(commands[i], commands[j])'
    BY DEF InOrder
  <2>1. i \in DOMAIN commands /\ commands'[i] = commands[i]
    BY DEF CommandTypeOK
  <2>2. commands[i] \in ToSet(accepted)
    BY <2>1 DEF PlaceOK, ToSet
  <2>3. CASE j \in DOMAIN commands
    <3>1. commands'[j] = commands[j]
      BY <2>3 DEF CommandTypeOK
    <3>2. Before(commands[i], commands[j])
      BY <2>1, <2>3 DEF InOrder, OrderOK
    <3> QED
      BY <2>1, <3>1, <3>2, <1>11 DEF Before
  <2>4. CASE j \notin DOMAIN commands
    <3>1. commands'[j] = c
      BY <2>4 DEF CommandTypeOK
    <3>2. PICK k \in DOMAIN accepted : accepted[k] = commands[i]
      BY <2>2 DEF ToSet
    <3>3. /\ k \in DOMAIN accepted' /\ Len(accepted) + 1 \in DOMAIN accepted'
          /\ k < Len(accepted) + 1 /\ accepted'[k] = accepted[k]
      BY <1>11
    <3> QED
      BY <2>1, <3>1, <3>2, <3>3, <1>11 DEF Before
  <2> QED
    BY <2>3, <2>4
<1>19. OrderOK'
  <2>1. \A s \in Request : InOrder(answer[s].cmds)'
    BY <1>16 DEF OrderOK, InOrder
  <2>2. \A d \in SubKey : InOrder(given[d])'
    BY <1>16 DEF OrderOK, InOrder
  <2>3. ASSUME NEW a \in ToSet(accepted') \ ToSet(commands'), NEW b \in ToSet(commands')
        PROVE  Before(a, b)'
    BY <1>3, <1>4, <1>16, <1>17 DEF OrderOK
  <2> QED
    BY <2>1, <2>2, <2>3, <1>5, <1>14, <1>16, <1>18 DEF OrderOK
<1> QED
  BY <1>6, <1>8, <1>9, <1>10, <1>15, <1>19

(* The relay empties the queue into an answer.                             *)
LEMMA DrainKeeps ==
    ASSUME CInv, NEW r \in Request, DrainCommands(r)
    PROVE  CInv'
<1> USE DEF CInv, DrainCommands, Serve, AnswerWith, Goto
<1>1. /\ answer'[r].cmds = commands /\ commands' = <<>>
      /\ \A s \in Request \ {r} : answer'[s] = answer[s]
      /\ answer[r].cmds = <<>>
  BY DEF AnswersOK, CommandTypeOK
<1>2. /\ ToSet(commands') = {}
      /\ InAnswer(r) = {} /\ InAnswer(r)' = ToSet(commands)
      /\ \A s \in Request \ {r} : InAnswer(s)' = InAnswer(s)
  BY <1>1, ToSetEmpty DEF InAnswer
<1>3. Underway' = Underway \cup ToSet(commands)
  BY <1>2, InUnderway DEF Underway
<1>4. AllGiven' = AllGiven
  BY DEF AllGiven
<1>5. CommandTypeOK'
  BY <1>1 DEF CommandTypeOK, Phases
<1>6. \A s \in Request : Bringing(s)' => Bringing(s)
  BY DEF Bringing, Unserved, CommandTypeOK
<1>7. SentOK' /\ OneWaits'
  BY <1>6 DEF SentOK, OneWaits
<1>8. AnswersOK'
  BY <1>1 DEF AnswersOK, CommandTypeOK
<1>9. PlaceOK'
  <2>1. /\ ToSet(accepted) = ToSet(commands') \cup Underway' \cup AllGiven \cup lost
        /\ ToSet(commands') \cap (Underway' \cup AllGiven \cup lost) = {}
        /\ Underway' \cap (AllGiven \cup lost) = {}
    BY <1>2, <1>3 DEF PlaceOK
  <2>2. \A s \in Request : ToSet(commands) \cap InAnswer(s) = {}
    BY InUnderway DEF PlaceOK
  <2>3. \A s, t \in Request : s # t => InAnswer(s)' \cap InAnswer(t)' = {}
    BY <1>2, <2>2 DEF PlaceOK
  <2> QED
    BY <1>4, <2>1, <2>3 DEF PlaceOK
<1>10. \A c, e : Before(c, e)' <=> Before(c, e)
  BY DEF Before
<1>11. \A s \in Request : InOrder(answer[s].cmds)'
  <2>1. ASSUME NEW s \in Request \ {r} PROVE InOrder(answer[s].cmds)'
    BY <1>1, <1>10 DEF InOrder, OrderOK
  <2>2. InOrder(answer[r].cmds)'
    BY <1>1, <1>10 DEF InOrder, OrderOK
  <2> QED
    BY <2>1, <2>2
<1>12. InOrder(commands)' /\ \A d \in SubKey : InOrder(given[d])'
  BY <1>1, <1>10 DEF InOrder, OrderOK
<1>13. ASSUME NEW c \in ToSet(given[req[r].signer]), NEW e \in ToSet(commands)
       PROVE  Before(c, e)
  <2>1. c \in AllGiven
    BY InAllGiven DEF CommandTypeOK
  <2> QED
    BY <2>1 DEF PlaceOK, OrderOK
<1>14. ASSUME NEW s \in Request, waiting'[s],
              NEW c \in ToSet(given[req[s].signer]), NEW e \in InAnswer(s)'
       PROVE  Before(c, e)
  BY <1>14, <1>2, <1>13 DEF OrderOK
<1>15. OrderOK'
  BY <1>2, <1>10, <1>11, <1>12, <1>14 DEF OrderOK
<1> QED
  BY <1>5, <1>7, <1>8, <1>9, <1>15

(* A request slot is free again, and no command was in its answer.         *)
LEMMA EmptyFreeKeeps ==
    ASSUME CInv, NEW r \in Request, Free(r), answer[r].cmds = <<>>,
           UNCHANGED <<given, lost>>
    PROVE  CInv'
<1> USE DEF CInv, Free, Goto, store, Idle, NoAnswer
<1>1. CommandTypeOK'
  BY CreatorAssumption DEF CommandTypeOK, Phases, AllOps
<1>2. \A s \in Request : answer'[s].cmds = answer[s].cmds
  BY DEF CommandTypeOK
<1>3. \A s \in Request : /\ Bringing(s)' => Bringing(s) /\ req'[s] = req[s]
                         /\ waiting'[s] => waiting[s] /\ req'[s] = req[s]
                         /\ s = r \/ (req'[s] = req[s] /\ phase'[s] = phase[s])
  BY DEF Bringing, Unserved, CommandTypeOK
<1>4. SentOK'
  BY <1>3, SentKept
<1>5. OneWaits'
  BY <1>3, WaitKept
<1>6. AnswersOK'
  BY <1>2, <1>3 DEF AnswersOK
<1>7. PlaceOK' /\ OrderOK'
  BY <1>2, <1>3, QuietKeeps
<1> QED
  BY <1>1, <1>4, <1>5, <1>6, <1>7

(* An installation waits no longer.                                        *)
LEMMA GiveUpKeeps ==
    ASSUME CInv, NEW r \in Request, GiveUp(r)
    PROVE  CInv'
<1> USE DEF CInv, GiveUp, store
<1>1. \A s \in Request : waiting'[s] => waiting[s]
  BY DEF CommandTypeOK
<1>2. CommandTypeOK' /\ SentOK' /\ AnswersOK'
  BY DEF CommandTypeOK, SentOK, Bringing, Unserved, AnswersOK
<1>3. OneWaits'
  BY <1>1 DEF OneWaits
<1>4. PlaceOK' /\ OrderOK'
  BY <1>1, QuietKeeps
<1> QED
  BY <1>2, <1>3, <1>4

(* What an answer held reaches the device that waited for it, or nobody.   *)
LEMMA ReturnKeeps ==
    ASSUME CInv, NEW r \in Request, Return(r)
    PROVE  CInv'
<1> USE DEF CInv, Return
<1> DEFINE d == req[r].signer
           cmds == answer[r].cmds
<1>1. d \in SubKey /\ cmds \in Seq(Command)
  BY DEF CommandTypeOK
<1>2. CASE cmds = <<>>
  <2>1. given[d] \o <<>> = given[d]
    BY <1>1 DEF CommandTypeOK
  <2>2. given' = given
    BY <1>2, <2>1 DEF CommandTypeOK
  <2>3. lost' = lost
    BY <1>2, ToSetEmpty
  <2> QED
    BY <1>2, <2>2, <2>3, EmptyFreeKeeps
<1>3. CASE cmds # <<>>
  <2> USE DEF Free, Goto, store, Idle, NoAnswer
  <2>1. phase[r] = "done" /\ req[r].op = "pullCommands"
    BY <1>3 DEF AnswersOK
  <2>2. /\ answer'[r].cmds = <<>>
        /\ \A s \in Request \ {r} : answer'[s] = answer[s]
    BY DEF CommandTypeOK
  <2>3. /\ InAnswer(r) = ToSet(cmds) /\ InAnswer(r)' = {}
        /\ \A s \in Request \ {r} : InAnswer(s)' = InAnswer(s)
    BY <2>2, ToSetEmpty DEF InAnswer
  <2>4. Underway' = Underway \ ToSet(cmds) /\ ToSet(cmds) \subseteq Underway
    BY <2>3, InUnderway DEF Underway, PlaceOK
  <2>5. \A s \in Request : /\ Bringing(s)' => Bringing(s) /\ req'[s] = req[s]
                           /\ waiting'[s] => waiting[s] /\ s # r /\ req'[s] = req[s]
                           /\ s = r \/ (req'[s] = req[s] /\ phase'[s] = phase[s])
    BY DEF Bringing, Unserved, CommandTypeOK
  <2>6. SentOK' /\ OneWaits'
    BY <2>5, SentKept, WaitKept
  <2>7. AnswersOK'
    BY <2>2, <2>5 DEF AnswersOK
  <2>8. \A c, e : Before(c, e)' <=> Before(c, e)
    BY DEF Before
  <2>9. \A s \in Request : InOrder(answer[s].cmds)'
    <3>1. ASSUME NEW s \in Request \ {r} PROVE InOrder(answer[s].cmds)'
      BY <2>2, <2>8 DEF InOrder, OrderOK
    <3>2. InOrder(answer[r].cmds)'
      BY <2>2 DEF InOrder
    <3> QED
      BY <3>1, <3>2
  <2>10. InOrder(commands)'
    BY <2>8 DEF InOrder, OrderOK
  <2>11. phase' \in [Request -> Phases] /\ waiting' \in [Request -> BOOLEAN]
    BY DEF CommandTypeOK, Phases
  <2>12. /\ DOMAIN req' = Request /\ DOMAIN answer' = Request
         /\ \A s \in Request : /\ req'[s].op \in AllOps /\ req'[s].signer \in SubKey
                               /\ answer'[s].cmds \in Seq(Command)
    BY CreatorAssumption DEF CommandTypeOK, AllOps
  <2>13. CASE waiting[r]
    <3>1. /\ given' = [given EXCEPT ![d] = @ \o cmds] /\ lost' = lost
      BY <2>1, <2>13 DEF Got
    <3>2. /\ given'[d] = given[d] \o cmds /\ given'[d] \in Seq(Command)
          /\ ToSet(given'[d]) = ToSet(given[d]) \cup ToSet(cmds)
          /\ \A e \in SubKey \ {d} : given'[e] = given[e]
          /\ given' \in [SubKey -> Seq(Command)]
      <4>1. given[d] \in Seq(Command) /\ given[d] \o cmds \in Seq(Command)
        BY <1>1 DEF CommandTypeOK
      <4>2. ToSet(given[d] \o cmds) = ToSet(given[d]) \cup ToSet(cmds)
        BY <1>1, <4>1, ToSetConcat
      <4> QED
        BY <1>1, <3>1, <4>1, <4>2, Zenon DEF CommandTypeOK
    <3>3. AllGiven' = AllGiven \cup ToSet(cmds)
      <4>1. \A e \in SubKey \ {d} : ToSet(given'[e]) = ToSet(given[e])
        BY <3>2, Zenon
      <4>2. ToSet(given'[d]) = ToSet(given[d]) \cup ToSet(cmds)
        BY <3>2
      <4>3. \A c : c \in AllGiven' <=> \E e \in SubKey : c \in ToSet(given'[e])
        BY DEF AllGiven
      <4> QED
        BY <1>1, <4>1, <4>2, <4>3, InAllGiven, Zenon
    <3>4. CommandTypeOK'
      BY <2>11, <2>12, <3>1, <3>2 DEF CommandTypeOK
    <3>5. \A e \in SubKey : ToSet(given[e]) \cap ToSet(cmds) = {}
      BY <2>4, InAllGiven DEF PlaceOK
    <3>6. \A e, f \in SubKey : e # f => ToSet(given'[e]) \cap ToSet(given'[f]) = {}
      <4>1. \A e, f \in SubKey : e # f => ToSet(given[e]) \cap ToSet(given[f]) = {}
        BY DEF PlaceOK
      <4>2. \A e \in SubKey :
              ToSet(given'[e]) = ToSet(given[e]) \/ (e = d /\ ToSet(given'[e]) = ToSet(given[e]) \cup ToSet(cmds))
        BY <3>2, Zenon
      <4> QED
        BY <3>5, <4>1, <4>2
    <3>7. PlaceOK'
      BY <2>3, <2>4, <3>1, <3>3, <3>6 DEF PlaceOK
    <3>8. InOrder(given[d] \o cmds)
      BY <1>1, <2>3, <2>13, InOrderConcat DEF OrderOK, CommandTypeOK
    <3>9. ASSUME NEW e \in SubKey PROVE InOrder(given[e])'
      BY <2>8, <3>2, <3>8 DEF InOrder, OrderOK
    <3>10. ASSUME NEW s \in Request, waiting'[s] PROVE given'[req'[s].signer] = given[req[s].signer]
      BY <2>5, <2>13, <3>2, <3>10 DEF OneWaits, CommandTypeOK
    <3>11. OrderOK'
      BY <2>3, <2>5, <2>8, <2>9, <2>10, <3>9, <3>10 DEF OrderOK
    <3> QED
      BY <2>6, <2>7, <3>4, <3>7, <3>11
  <2>14. CASE ~ waiting[r]
    <3>1. given' = given /\ lost' = lost \cup ToSet(cmds)
      BY <2>14 DEF Got
    <3>2. AllGiven' = AllGiven
      BY <3>1 DEF AllGiven
    <3>3. ToSet(cmds) \subseteq Command
      BY <1>1 DEF ToSet
    <3>4. CommandTypeOK'
      BY <2>11, <2>12, <3>1, <3>3 DEF CommandTypeOK
    <3>5. PlaceOK'
      BY <2>3, <2>4, <3>1, <3>2 DEF PlaceOK
    <3>6. \A e \in SubKey : InOrder(given[e])'
      BY <2>8, <3>1 DEF InOrder, OrderOK
    <3>7. ASSUME NEW s \in Request, waiting'[s],
                 NEW c \in ToSet(given[req[s].signer])', NEW e \in InAnswer(s)'
          PROVE  Before(c, e)
      <4>1. s # r /\ waiting[s] /\ req'[s] = req[s]
        BY <2>5, <3>7
      <4>2. c \in ToSet(given[req[s].signer]) /\ e \in InAnswer(s)
        BY <2>3, <3>1, <3>7, <4>1
      <4> QED
        BY <4>1, <4>2 DEF OrderOK
    <3>8. OrderOK'
      BY <2>8, <2>9, <2>10, <3>1, <3>6, <3>7 DEF OrderOK
    <3> QED
      BY <2>6, <2>7, <3>4, <3>5, <3>8
  <2> QED
    BY <2>13, <2>14
<1> QED
  BY <1>2, <1>3

(* Every step of the relay and of the devices keeps CInv.                  *)
LEMMA CommandStep == CInv /\ [SessionNext]_sessionVars => CInv'
<1> SUFFICES ASSUME CInv, [SessionNext]_sessionVars PROVE CInv'
  OBVIOUS
<1>1. ASSUME UNCHANGED <<store, calls, sent, given, lost>> PROVE CInv'
  <2> USE <1>1 DEF CInv, store, calls
  <2>1. CommandTypeOK' /\ SentOK' /\ OneWaits' /\ AnswersOK'
    BY DEF CommandTypeOK, SentOK, Bringing, Unserved, OneWaits, AnswersOK
  <2>2. PlaceOK' /\ OrderOK'
    BY QuietKeeps
  <2> QED
    BY <2>1, <2>2
<1>2. ASSUME NEW r \in Request, NEW d \in SubKey,
             \/ SessionTick(r, d) \/ CommandTick(r, d)
             \/ \E c \in Command : SendCommand(r, d, c)
             \/ SyncUp(r, d) \/ SyncDown(r, d)
      PROVE  CInv'
  <2>1. {"putSession", "getSession", "pullCommands", "postCommand", "putState", "getState"}
            \subseteq AllOps
    BY DEF AllOps
  <2>2. CASE SessionTick(r, d)
    BY <2>1, <2>2, NewRequestKeeps DEF SessionTick
  <2>3. CASE CommandTick(r, d)
    BY <2>1, <2>3, NewRequestKeeps DEF CommandTick
  <2>4. CASE \E c \in Command : SendCommand(r, d, c)
    BY <2>1, <2>4, NewRequestKeeps DEF SendCommand
  <2>5. CASE SyncUp(r, d)
    BY <2>1, <2>5, NewRequestKeeps DEF SyncUp
  <2>6. CASE SyncDown(r, d)
    BY <2>1, <2>6, NewRequestKeeps DEF SyncDown
  <2> QED
    BY <1>2, <2>2, <2>3, <2>4, <2>5, <2>6
<1>3. ASSUME NEW r \in Request, Handle(r) PROVE CInv'
  <2>1. {"refused", "checked", "authorized", "done"} \subseteq Phases \ {"free", "sent"}
    BY DEF Phases
  <2>2. phase[r] # "done" => answer[r].cmds = <<>>
    BY DEF CInv, AnswersOK
  <2>3. DOMAIN answer = Request
    BY DEF CInv, CommandTypeOK
  <2> USE <2>1 DEF store, Unserved
  <2>4. CASE AuthorizeActive(r)
    BY <2>3, <2>4, ProgressKeeps DEF AuthorizeActive
  <2>5. CASE PutSession(r)
    <3> USE <2>5 DEF PutSession, Serve, AnswerWith
    <3>1. CASE NewerSession(req[r].arg)
      BY <2>2, <2>3, <3>1, ProgressKeeps DEF Bringing
    <3>2. CASE ~ NewerSession(req[r].arg)
      BY <2>3, <3>2, ProgressKeeps
    <3> QED
      BY <3>1, <3>2
  <2>6. CASE GetSession(r)
    BY <2>2, <2>3, <2>6, ProgressKeeps DEF GetSession, Serve, AnswerWith, Bringing
  <2>7. CASE EnqueueCommand(r)
    BY <2>7, EnqueueKeeps
  <2>8. CASE DrainCommands(r)
    BY <2>8, DrainKeeps
  <2>9. CASE PutBlob(r)
    BY <2>2, <2>3, <2>9, ProgressKeeps DEF PutBlob, Serve, AnswerWith, Bringing
  <2>10. CASE GetLatestBlob(r)
    BY <2>2, <2>3, <2>10, ProgressKeeps DEF GetLatestBlob, Serve, AnswerWith, Bringing
  <2> QED
    BY <1>3, <2>4, <2>5, <2>6, <2>7, <2>8, <2>9, <2>10 DEF Handle
<1>4. ASSUME NEW r \in Request, LoseRequest(r) PROVE CInv'
  BY <1>4, EmptyFreeKeeps DEF LoseRequest, CInv, AnswersOK
<1> QED
  BY <1>1, <1>2, <1>3, <1>4, ReturnKeeps, GiveUpKeeps
  DEF SessionNext, ChangeManifest, sessionVars

(* Commands that come in the order the relay took them come once.          *)
LEMMA OrderedOnce ==
    ASSUME CInv, NEW s \in Seq(Command), InOrder(s)
    PROVE  IsInjective(s)
<1>1. ASSUME NEW i \in DOMAIN s, NEW j \in DOMAIN s, i < j PROVE s[i] # s[j]
  <2>1. PICK p, q \in DOMAIN accepted : p < q /\ accepted[p] = s[i] /\ accepted[q] = s[j]
    BY <1>1 DEF InOrder, Before
  <2>2. p # q
    BY <2>1 DEF CInv, CommandTypeOK
  <2> QED
    BY <2>1, <2>2 DEF CInv, PlaceOK, IsInjective
<1>2. \A i, j \in DOMAIN s : i < j \/ j < i \/ i = j
  OBVIOUS
<1> QED
  BY <1>1, <1>2 DEF IsInjective

(* So no device has a command twice, and no two have the same.             *)
LEMMA HandedOnce == CInv => GivenOnce
<1> SUFFICES ASSUME CInv, NEW d \in SubKey PROVE IsInjective(given[d])
  BY DEF GivenOnce, CInv, PlaceOK
<1> QED
  BY OrderedOnce DEF CInv, CommandTypeOK, OrderOK

\* relay/store.go, RemoteService.ts: CInv in every reachable state: a command has one
\* place, and every list of commands has the order in which the relay took them.
THEOREM CommandInvariance == SessionSpec => []CInv
<1> QED
  BY CommandStart, CommandStep, PTL DEF SessionSpec

(* No command is handed to onCommand twice, on one device or on two.       *)
THEOREM CommandsAreGivenOnce == SessionSpec => []GivenOnce
<1> QED
  BY HandedOnce, CommandInvariance, PTL

(* A command that the relay took is in exactly one place: its queue, an    *)
(* answer, a device, or lost (EnqueueCommand, DrainCommands in             *)
(* relay/store.go and the pollers of RemoteService.ts).                    *)
THEOREM CommandsAreInOnePlace == SessionSpec => []EachInOnePlace
<1>1. CInv => EachInOnePlace
  <2> SUFFICES ASSUME CInv PROVE EachInOnePlace
    OBVIOUS
  <2>1. IsInjective(commands)
    BY OrderedOnce DEF CInv, CommandTypeOK, OrderOK
  <2> QED
    BY <2>1, HandedOnce DEF CInv, PlaceOK, EachInOnePlace
<1> QED
  BY <1>1, CommandInvariance, PTL

(* Each device gets its commands in the order the relay took them, however *)
(* the ticks of its poller meet timeouts and lost requests                 *)
(* (RemoteService.ts, commandTick).                                        *)
THEOREM CommandsComeInOrder == SessionSpec => []GivenInOrder
<1>1. CInv => GivenInOrder
  <2>1. CInv => OrderOK
    BY Zenon DEF CInv
  <2>2. OrderOK => GivenInOrder
    BY Zenon DEF OrderOK, GivenInOrder
  <2> QED
    BY <2>1, <2>2
<1> QED
  BY <1>1, CommandInvariance, PTL

-----------------------------------------------------------------------------
(* Sessions and snapshots. What was acknowledged is not newer than what    *)
(* the relay holds (WritersOK, KeptOK), the relay never goes back, and so  *)
(* a read answers no older value than its floor (FloorOK). The number of   *)
(* snapshots counts the uploads under way (RoomOK).                        *)

Uploading == {r \in Request : Unserved(r) /\ req[r].op = "putState"}

RoomOK == uploads \in Nat /\ uploads + Cardinality(Uploading) <= MaxBlob

KeptOK ==
    /\ session \in [version : 0..MaxSession, by : SubKey]
    /\ written \subseteq [version : 1..MaxSession, by : SubKey]
    /\ blobs \in Seq(1..uploads) /\ Len(blobs) <= Retention
    /\ uploads > 0 => blobs # <<>> /\ Last(blobs) = uploads
    /\ backedUp \in 0..uploads
    /\ \A r \in Request :
        /\ req[r].op = "putSession" => req[r].arg \in 1..MaxSession
        /\ answer[r].version \in Nat
        /\ phase[r] = "done" /\ req[r].op = "putState" => answer[r].version <= uploads

FloorOK ==
    \A r \in Request :
        /\ req[r].op = "getSession" => req[r].floor \in 0..session.version
        /\ req[r].op = "getState" => req[r].floor \in 0..uploads

SInv == RoomOK /\ KeptOK /\ FloorOK /\ ReadsAreFresh

(* Only finitely many uploads are under way.                               *)
LEMMA UploadingFinite ==
    /\ IsFiniteSet(Uploading) /\ Cardinality(Uploading) \in Nat
    /\ \A S \in SUBSET Uploading : Cardinality(S) \in Nat /\ Cardinality(S) <= Cardinality(Uploading)
<1>1. IsFiniteSet(Uploading)
  BY RelayAssumption, FS_Subset DEF Uploading
<1> QED
  BY <1>1, FS_Subset, FS_CardinalityType

(* SInv holds at first.                                                    *)
LEMMA StorageStart == SessionInit => SInv
<1> SUFFICES ASSUME SessionInit PROVE SInv
  OBVIOUS
<1> USE RelayAssumption DEF SessionInit
<1>1. Uploading = {}
  BY DEF Uploading, Unserved
<1>2. RoomOK
  BY <1>1, FS_EmptySet DEF RoomOK
<1>3. KeptOK
  BY CreatorAssumption DEF KeptOK, NoSession, NoAnswer, Idle
<1>4. FloorOK /\ ReadsAreFresh
  BY DEF FloorOK, ReadsAreFresh, Idle, NoSession
<1> QED
  BY <1>2, <1>3, <1>4 DEF SInv

(* Steps that store and request nothing, and give only answers that are    *)
(* fresh.                                                                  *)
LEMMA AnswerIsFresh ==
    ASSUME SInv, UNCHANGED <<session, blobs, uploads, written, backedUp, req>>,
           Uploading' \subseteq Uploading,
           \A r \in Request :
               /\ answer'[r].version \in Nat
               /\ phase'[r] = "done" /\ req[r].op = "putState" => answer'[r].version <= uploads,
           ReadsAreFresh'
    PROVE  SInv'
<1> USE DEF SInv
<1>1. RoomOK'
  BY UploadingFinite, RelayAssumption DEF RoomOK
<1>2. KeptOK' /\ FloorOK'
  BY DEF KeptOK, FloorOK
<1> QED
  BY <1>1, <1>2

(* The relay moves a request on, or answers it with a version that is not  *)
(* below the floor of a read.                                              *)
LEMMA ServedKeeps ==
    ASSUME CInv, SInv, NEW r \in Request, Unserved(r), NEW v \in Nat,
           UNCHANGED <<session, blobs, uploads, written, backedUp, req>>,
           NEW p \in {"checked", "authorized", "refused", "done"}, Goto(r, p),
           \/ p # "done" /\ answer' = answer
           \/ /\ p = "done" /\ req[r].op # "putState"
              /\ \E cmds : answer' = [answer EXCEPT ![r] = [version |-> v, cmds |-> cmds]]
              /\ req[r].op \in {"getSession", "getState"} => v >= req[r].floor
    PROVE  SInv'
<1> USE DEF Goto
<1>1. \A s \in Request \ {r} : phase'[s] = phase[s] /\ answer'[s] = answer[s]
  BY DEF CInv, CommandTypeOK
<1>2. phase'[r] = p /\ (answer'[r].version = v \/ answer' = answer)
  BY DEF CInv, CommandTypeOK
<1>3. Uploading' \subseteq Uploading
  BY <1>1 DEF Uploading, Unserved
<1>4. \A s \in Request :
         /\ answer'[s].version \in Nat
         /\ phase'[s] = "done" /\ req[s].op = "putState" => answer'[s].version <= uploads
  BY <1>1, <1>2 DEF SInv, KeptOK
<1>5. p = "done" => answer'[r].version = v
  BY DEF CInv, CommandTypeOK
<1>6. ReadsAreFresh'
  BY <1>1, <1>2, <1>5 DEF SInv, ReadsAreFresh
<1> QED
  BY <1>3, <1>4, <1>6, AnswerIsFresh

(* A newer session replaces the one the relay holds.                       *)
LEMMA NewSessionKeeps ==
    ASSUME CInv, SInv, NEW r \in Request, PutSession(r), NewerSession(req[r].arg)
    PROVE  SInv'
<1> USE DEF PutSession, Serve, AnswerWith, Goto
<1>1. /\ session'.version = req[r].arg /\ req[r].arg > session.version
      /\ session.version \in Nat /\ req[r].arg \in 1..MaxSession
  BY RelayAssumption DEF SInv, KeptOK, NewerSession
<1>2. \A s \in Request \ {r} : phase'[s] = phase[s] /\ answer'[s] = answer[s]
  BY DEF CInv, CommandTypeOK
<1>3. phase'[r] = "done" /\ answer'[r].version = 0
  BY DEF CInv, CommandTypeOK
<1>4. RoomOK'
  <2>1. Uploading' \subseteq Uploading
    BY <1>2, <1>3 DEF Uploading, Unserved
  <2> QED
    BY <2>1, UploadingFinite, RelayAssumption DEF SInv, RoomOK
<1>5. KeptOK'
  <2>1. session' \in [version : 0..MaxSession, by : SubKey]
    BY <1>1, RelayAssumption DEF CInv, CommandTypeOK
  <2> QED
    BY <1>2, <1>3, <2>1 DEF SInv, KeptOK
<1>6. FloorOK'
  BY <1>1 DEF SInv, FloorOK
<1>7. ReadsAreFresh'
  BY <1>2 DEF SInv, ReadsAreFresh
<1> QED
  BY <1>4, <1>5, <1>6, <1>7 DEF SInv

(* What Retained keeps of a sequence that ends in a new snapshot.          *)
LEMMA RetainedKeepsLast ==
    ASSUME NEW n \in Nat, NEW s \in Seq(1..n), Len(s) <= Retention
    PROVE  /\ Retained(Append(s, n + 1)) \in Seq(1..(n + 1))
           /\ Len(Retained(Append(s, n + 1))) <= Retention
           /\ Retained(Append(s, n + 1)) # <<>>
           /\ Last(Retained(Append(s, n + 1))) = n + 1
<1> DEFINE u == Append(s, n + 1)
<1>1. Retention \in Nat \ {0}
  BY RelayAssumption
<1>2. /\ u \in Seq(1..(n + 1)) /\ Len(u) = Len(s) + 1 /\ u[Len(u)] = n + 1 /\ Len(s) \in Nat
      /\ \A i \in 1..Len(u) : u[i] \in 1..(n + 1)
  <2>1. s \in Seq(1..(n + 1)) /\ n + 1 \in 1..(n + 1)
    OBVIOUS
  <2>2. u \in Seq(1..(n + 1)) /\ Len(u) = Len(s) + 1 /\ u[Len(s) + 1] = n + 1
    BY <2>1
  <2> HIDE DEF u
  <2> QED
    BY <2>2
<1>3. CASE Len(u) > Retention
  <2> DEFINE t == SubSeq(u, Len(u) - Retention + 1, Len(u))
  <2>1. Retained(u) = t
    BY <1>3 DEF Retained
  <2>2. /\ t \in Seq(1..(n + 1)) /\ Len(t) = Retention /\ t[Retention] = u[Len(u)]
    BY <1>1, <1>2, <1>3
  <2>3. t # <<>> /\ Last(t) = n + 1
    BY <1>1, <1>2, <2>2 DEF Last
  <2>4. Len(t) <= Retention
    BY <1>1, <2>2
  <2> HIDE DEF t
  <2> QED
    BY <2>1, <2>2, <2>3, <2>4, Zenon
<1>4. CASE ~ (Len(u) > Retention)
  BY <1>1, <1>2, <1>4 DEF Retained, Last
<1> QED
  BY <1>3, <1>4

(* A snapshot is stored; the newest one is never the one dropped.          *)
LEMMA PutBlobKeeps ==
    ASSUME CInv, SInv, NEW r \in Request, PutBlob(r)
    PROVE  SInv'
<1> USE DEF PutBlob, Serve, AnswerWith, Goto
<1>1. \A s \in Request \ {r} : phase'[s] = phase[s] /\ answer'[s] = answer[s]
  BY DEF CInv, CommandTypeOK
<1>2. phase'[r] = "done" /\ answer'[r].version = uploads'
  BY DEF CInv, CommandTypeOK
<1>3. uploads \in Nat /\ uploads' = uploads + 1
  BY DEF SInv, RoomOK
<1>4. RoomOK'
  <2>1. r \in Uploading
    BY DEF Uploading, Unserved
  <2>2. Uploading' = Uploading \ {r}
    BY <1>1, <1>2 DEF Uploading, Unserved
  <2>3. Cardinality(Uploading') = Cardinality(Uploading) - 1
    BY <2>1, <2>2, UploadingFinite, FS_RemoveElement
  <2> QED
    BY <1>3, <2>3, UploadingFinite, RelayAssumption DEF SInv, RoomOK
<1>5. /\ blobs' \in Seq(1..uploads') /\ Len(blobs') <= Retention
      /\ blobs' # <<>> /\ Last(blobs') = uploads'
  BY <1>3, RetainedKeepsLast DEF SInv, KeptOK
<1>6. KeptOK'
  BY <1>1, <1>2, <1>3, <1>5 DEF SInv, KeptOK
<1>7. FloorOK'
  BY <1>3 DEF SInv, FloorOK
<1>8. ReadsAreFresh'
  BY <1>1 DEF SInv, ReadsAreFresh
<1> QED
  BY <1>4, <1>6, <1>7, <1>8 DEF SInv

(* What a reader knows to be written is not newer than what the relay      *)
(* holds.                                                                  *)
LEMMA FloorIsHeld ==
    ASSUME RInv, SInv
    PROVE  Floor("getSession") \in 0..session.version /\ Floor("getState") \in 0..uploads
<1> DEFINE V == {0} \cup {w.version : w \in written}
<1>1. session.version \in Nat
  BY RelayAssumption DEF SInv, KeptOK
<1>2. \A v \in V : v \in Nat /\ v <= session.version
  BY <1>1 DEF RInv, WritersOK, Writer, SInv, KeptOK
<1>3. IsFiniteSet(V)
  BY <1>1, <1>2, FS_BoundedSetOfNaturals
<1>4. Max(V) \in V
  <2>1. 0 \in V
    OBVIOUS
  <2> HIDE DEF V
  <2>2. V \in SUBSET Int
    BY <1>2
  <2>3. V # {}
    BY <2>1
  <2> QED
    BY <1>3, <2>2, <2>3, MaxProperties
<1> QED
  BY <1>1, <1>2, <1>4 DEF Floor, SInv, KeptOK

(* An installation makes a request: its floor is what it may expect.       *)
LEMMA SendIsFresh ==
    ASSUME RInv, CInv, SInv, NEW r \in Request, NEW d \in SubKey, NEW op, NEW arg,
           Send(r, d, op, arg),
           op = "putSession" => arg \in 1..MaxSession,
           op = "putState" => uploads + Cardinality(Uploading) < MaxBlob
    PROVE  SInv'
<1> USE DEF Send, store
<1>1. \A s \in Request \ {r} : phase'[s] = phase[s] /\ req'[s] = req[s]
  BY DEF CInv, CommandTypeOK
<1>2. /\ phase'[r] = "sent" /\ req'[r].op = op /\ req'[r].arg = arg
      /\ req'[r].floor = Floor(op)
  BY DEF CInv, CommandTypeOK
<1>3. RoomOK'
  <2>1. CASE op = "putState"
    <3>1. Uploading' = Uploading \cup {r}
      BY <1>1, <1>2, <2>1 DEF Uploading, Unserved
    <3>2. r \notin Uploading
      BY DEF Uploading, Unserved
    <3>3. Cardinality(Uploading') = Cardinality(Uploading) + 1
      BY <3>1, <3>2, UploadingFinite, FS_AddElement
    <3> QED
      BY <2>1, <3>3, UploadingFinite, RelayAssumption DEF SInv, RoomOK
  <2>2. CASE op # "putState"
    <3>1. Uploading' \subseteq Uploading
      BY <1>1, <1>2, <2>2 DEF Uploading, Unserved
    <3> QED
      BY <3>1, UploadingFinite, RelayAssumption DEF SInv, RoomOK
  <2> QED
    BY <2>1, <2>2
<1>5. KeptOK'
  BY <1>1, <1>2 DEF SInv, KeptOK
<1>6. FloorOK'
  BY <1>1, <1>2, FloorIsHeld DEF SInv, FloorOK
<1>7. ReadsAreFresh'
  BY <1>1, <1>2 DEF SInv, ReadsAreFresh
<1> QED
  BY <1>3, <1>5, <1>6, <1>7 DEF SInv

(* An answer is delivered or dropped, and the slot is free again.          *)
LEMMA FreeIsFresh ==
    ASSUME CInv, SInv, NEW r \in Request, Free(r),
           \/ written' = written
           \/ req[r].op = "putSession" /\ written' = written \cup {Write(r)},
           \/ backedUp' = backedUp
           \/ /\ phase[r] = "done" /\ req[r].op = "putState"
              /\ backedUp' = Max({backedUp, answer[r].version})
    PROVE  SInv'
<1> USE DEF Free, Goto, store, Idle, NoAnswer
<1>1. \A s \in Request \ {r} : /\ phase'[s] = phase[s] /\ req'[s] = req[s]
                               /\ answer'[s] = answer[s]
  BY DEF CInv, CommandTypeOK
<1>2. phase'[r] = "free" /\ req'[r] = Idle /\ answer'[r] = NoAnswer
  BY DEF CInv, CommandTypeOK
<1>3. RoomOK'
  <2>1. Uploading' \subseteq Uploading
    BY <1>1, <1>2 DEF Uploading, Unserved
  <2> QED
    BY <2>1, UploadingFinite, RelayAssumption DEF SInv, RoomOK
<1>4. written' \subseteq [version : 1..MaxSession, by : SubKey]
  BY DEF SInv, KeptOK, Write, CInv, CommandTypeOK
<1>5. backedUp' \in 0..uploads
  <2>1. CASE backedUp' = backedUp
    BY <2>1 DEF SInv, KeptOK
  <2>2. CASE phase[r] = "done" /\ req[r].op = "putState" /\ backedUp' = Max({backedUp, answer[r].version})
    <3>1. backedUp \in 0..uploads /\ answer[r].version \in 0..uploads /\ uploads \in Nat
      BY <2>2 DEF SInv, KeptOK, RoomOK
    <3>2. backedUp \in Int /\ answer[r].version \in Int
      BY <3>1
    <3>3. Max({backedUp, answer[r].version}) \in {backedUp, answer[r].version}
      BY <3>2, MaxOfTwo
    <3> QED
      BY <2>2, <3>1, <3>3
  <2> QED
    BY <2>1, <2>2
<1>6. KeptOK'
  BY <1>1, <1>2, <1>4, <1>5 DEF SInv, KeptOK
<1>7. FloorOK'
  BY <1>1, <1>2 DEF SInv, FloorOK, RoomOK
<1>8. ReadsAreFresh'
  BY <1>1, <1>2 DEF SInv, ReadsAreFresh
<1> QED
  BY <1>3, <1>6, <1>7, <1>8 DEF SInv

(* Steps that leave alone all that SInv speaks of.                         *)
LEMMA SameStorage ==
    ASSUME SInv, UNCHANGED <<session, blobs, uploads, written, backedUp, phase, req, answer>>
    PROVE  SInv'
  BY DEF SInv, RoomOK, Uploading, Unserved, KeptOK, FloorOK, ReadsAreFresh

(* The relay's steps keep SInv.                                            *)
LEMMA HandleIsFresh ==
    ASSUME CInv, SInv, NEW r \in Request, Handle(r)
    PROVE  SInv'
<1> USE DEF store, Unserved
<1>1. CASE AuthorizeActive(r)
  BY <1>1, ServedKeeps, 0 \in Nat DEF AuthorizeActive
<1>2. CASE PutSession(r)
  <2>1. CASE NewerSession(req[r].arg)
    BY <1>2, <2>1, NewSessionKeeps
  <2>2. CASE ~ NewerSession(req[r].arg)
    BY <1>2, <2>2, ServedKeeps, 0 \in Nat DEF PutSession, Serve
  <2> QED
    BY <2>1, <2>2
<1>3. CASE GetSession(r)
  <2> USE <1>3 DEF GetSession, Serve, AnswerWith
  <2>1. session.version \in Nat /\ session.version >= req[r].floor
    BY RelayAssumption DEF SInv, FloorOK, KeptOK
  <2> QED
    BY <2>1, ServedKeeps
<1>4. CASE EnqueueCommand(r)
  BY <1>4, ServedKeeps, 0 \in Nat DEF EnqueueCommand, Serve, AnswerWith
<1>5. CASE DrainCommands(r)
  BY <1>5, ServedKeeps, 0 \in Nat DEF DrainCommands, Serve, AnswerWith
<1>6. CASE PutBlob(r)
  BY <1>6, PutBlobKeeps
<1>7. CASE GetLatestBlob(r)
  <2> USE <1>7 DEF GetLatestBlob, Serve, AnswerWith
  <2> DEFINE v == IF blobs = <<>> THEN 0 ELSE Last(blobs)
  <2>1. req[r].floor \in 0..uploads /\ uploads \in Nat
    BY DEF SInv, FloorOK, RoomOK
  <2>2. v \in Nat /\ v >= req[r].floor
    <3>1. CASE uploads = 0
      <4>1. blobs = <<>>
        BY <3>1 DEF SInv, KeptOK
      <4> QED
        BY <2>1, <3>1, <4>1
    <3>2. CASE uploads > 0
      BY <2>1, <3>2 DEF SInv, KeptOK
    <3> QED
      BY <2>1, <3>1, <3>2
  <2> HIDE DEF v
  <2>3. answer' = [answer EXCEPT ![r] = [version |-> v, cmds |-> <<>>]]
    BY DEF v
  <2> QED
    BY <2>2, <2>3, ServedKeeps
<1> QED
  BY <1>1, <1>2, <1>3, <1>4, <1>5, <1>6, <1>7 DEF Handle

(* Every step of the relay and of the devices keeps SInv.                  *)
LEMMA StorageStep == RInv /\ CInv /\ SInv /\ [SessionNext]_sessionVars => SInv'
<1> SUFFICES ASSUME RInv, CInv, SInv, [SessionNext]_sessionVars PROVE SInv'
  OBVIOUS
<1>1. ASSUME NEW r \in Request, NEW d \in SubKey,
             \/ SessionTick(r, d) \/ CommandTick(r, d)
             \/ \E c \in Command : SendCommand(r, d, c)
             \/ SyncUp(r, d) \/ SyncDown(r, d)
      PROVE  SInv'
  <2>1. CASE SyncUp(r, d)
    <3> DEFINE U == {x \in Request : req[x].op = "putState"}
    <3>1. IsFiniteSet(U) /\ Uploading \subseteq U
      BY RelayAssumption, FS_Subset DEF Uploading
    <3>2. Cardinality(Uploading) <= Cardinality(U) /\ Cardinality(U) \in Nat
      BY <3>1, FS_Subset, FS_CardinalityType
    <3>3. uploads + Cardinality(Uploading) < MaxBlob
      BY <2>1, <3>2, UploadingFinite, RelayAssumption DEF SyncUp, SInv, RoomOK
    <3> QED
      BY <2>1, <3>3, SendIsFresh DEF SyncUp
  <2>2. CASE SessionTick(r, d)
    BY <2>2, SendIsFresh DEF SessionTick
  <2>3. CASE CommandTick(r, d)
    BY <2>3, SendIsFresh DEF CommandTick
  <2>4. CASE \E c \in Command : SendCommand(r, d, c)
    BY <2>4, SendIsFresh DEF SendCommand
  <2>5. CASE SyncDown(r, d)
    BY <2>5, SendIsFresh DEF SyncDown
  <2> QED
    BY <1>1, <2>1, <2>2, <2>3, <2>4, <2>5
<1>2. ASSUME NEW r \in Request, Return(r) PROVE SInv'
  BY <1>2, FreeIsFresh DEF Return, Got, Write
<1>3. ASSUME NEW r \in Request, LoseRequest(r) PROVE SInv'
  BY <1>3, FreeIsFresh DEF LoseRequest
<1>4. ASSUME NEW r \in Request, GiveUp(r) PROVE SInv'
  BY <1>4, SameStorage DEF GiveUp, store
<1> QED
  BY <1>1, <1>2, <1>3, <1>4, HandleIsFresh, SameStorage
  DEF SessionNext, ChangeManifest, sessionVars, store, calls

\* relay/store.go: SInv in every reachable state: what was acknowledged before a read
\* was asked for is not newer than what the relay holds, or has answered.
THEOREM StorageInvariance == SessionSpec => []SInv
<1> QED
  BY StorageStart, StorageStep, SessionInvariance, CommandInvariance, PTL DEF SessionSpec

(* A device that reads the session or the newest snapshot gets nothing     *)
(* older than what was acknowledged, to whomever, before it asked          *)
(* (GetSession and GetLatestBlob, relay/store.go).                         *)
THEOREM ReadsNeverGoBack == SessionSpec => []ReadsAreFresh
<1>1. SInv => ReadsAreFresh
  BY DEF SInv
<1> QED
  BY <1>1, StorageInvariance, PTL

(* The state has its type; the relay keeps at most blobRetention snapshots *)
(* and the bound on uploads holds.                                         *)
THEOREM SessionTypeCorrect == SessionSpec => []SessionTypeOK
<1>1. RInv /\ CInv /\ SInv => SessionTypeOK
  <2> SUFFICES ASSUME RInv, CInv, SInv PROVE SessionTypeOK
    OBVIOUS
  <2>1. manifest \in Manifest
    BY DEF RInv, WellFormed
  <2>2. uploads \in 0..MaxBlob
    BY UploadingFinite, RelayAssumption DEF SInv, RoomOK
  <2> QED
    BY <2>1, <2>2 DEF CInv, CommandTypeOK, SInv, KeptOK, SessionTypeOK
<1> QED
  BY <1>1, SessionInvariance, CommandInvariance, StorageInvariance, PTL

-----------------------------------------------------------------------------
(* Queue and pollers implement the mailbox. What waits is the end of what  *)
(* the relay took, so what a pull drains is a block of it (BlocksOK); that *)
(* the block may still be handed over, and to this device, is what CInv    *)
(* says of the answer that carries it.                                     *)

WaitLast == \E k \in 0..Len(accepted) : commands = SubSeq(accepted, k + 1, Len(accepted))

Carries(r, i, j) == i <= j /\ answer[r].cmds = SubSeq(accepted, i, j)

BlocksOK ==
    /\ WaitLast
    /\ \A r \in Request : answer[r].cmds # <<>> => \E i, j \in DOMAIN accepted : Carries(r, i, j)

(* A block of a sequence stays one when the sequence grows.                *)
LEMMA BlockStays ==
    ASSUME NEW s \in Seq(Command), NEW x \in Command,
           NEW i \in 1..Len(s), NEW j \in 1..Len(s)
    PROVE  SubSeq(Append(s, x), i, j) = SubSeq(s, i, j)
<1>1. /\ Append(s, x) \in Seq(Command) /\ Len(Append(s, x)) = Len(s) + 1
      /\ \A k \in 1..Len(s) : Append(s, x)[k] = s[k]
  OBVIOUS
<1> QED
  BY <1>1

(* The end of a sequence grows with it.                                    *)
LEMMA EndGrows ==
    ASSUME NEW s \in Seq(Command), NEW x \in Command, NEW k \in 0..Len(s)
    PROVE  SubSeq(Append(s, x), k + 1, Len(s) + 1) = Append(SubSeq(s, k + 1, Len(s)), x)
<1> DEFINE a == SubSeq(Append(s, x), k + 1, Len(s) + 1)
           e == SubSeq(s, k + 1, Len(s))
<1>1. /\ e \in Seq(Command) /\ Len(e) = Len(s) - k
      /\ \A i \in 1..(Len(s) - k) : e[i] = s[i + k]
  OBVIOUS
<1>2. /\ Append(s, x) \in Seq(Command) /\ Len(Append(s, x)) = Len(s) + 1
      /\ \A i \in 1..Len(s) : Append(s, x)[i] = s[i]
      /\ Append(s, x)[Len(s) + 1] = x
  OBVIOUS
<1>3. /\ a \in Seq(Command) /\ Len(a) = Len(s) + 1 - k
      /\ \A i \in 1..(Len(s) + 1 - k) : a[i] = Append(s, x)[i + k]
  BY <1>2
<1> HIDE DEF a, e
<1>4. /\ Append(e, x) \in Seq(Command) /\ Len(Append(e, x)) = Len(s) + 1 - k
      /\ \A i \in 1..(Len(s) - k) : Append(e, x)[i] = s[i + k]
      /\ Append(e, x)[Len(s) + 1 - k] = x
  BY <1>1
<1>5. \A i \in 1..(Len(s) + 1 - k) : a[i] = Append(e, x)[i]
  <2> TAKE i \in 1..(Len(s) + 1 - k)
  <2>1. Len(s) \in Nat /\ k \in Nat /\ k <= Len(s) /\ i \in Nat
    OBVIOUS
  <2>2. a[i] = Append(s, x)[i + k]
    BY <1>3
  <2>3. CASE i <= Len(s) - k
    <3>1. i \in 1..(Len(s) - k) /\ i + k \in 1..Len(s)
      BY <2>1, <2>3
    <3> QED
      BY <1>2, <1>4, <2>2, <3>1
  <2>4. CASE i = Len(s) + 1 - k
    <3>1. i + k = Len(s) + 1
      BY <2>1, <2>4
    <3> QED
      BY <1>2, <1>4, <2>2, <2>4, <3>1
  <2>5. i <= Len(s) - k \/ i = Len(s) + 1 - k
    BY <2>1
  <2> QED
    BY <2>3, <2>4, <2>5
<1>6. a = Append(e, x)
  BY <1>3, <1>4, <1>5, SeqEqual
<1> QED
  BY <1>6 DEF a, e

(* The mailbox reads sequences as the session does.                        *)
LEMMA MailboxToSet == \A s : Mailbox!ToSet(s) = ToSet(s)
  BY DEF Mailbox!ToSet, ToSet

(* Nothing was taken at the start.                                         *)
LEMMA BlocksStart == SessionInit => BlocksOK
  BY DEF SessionInit, BlocksOK, WaitLast, NoAnswer

(* Steps that leave the queue alone and empty answers at most.             *)
LEMMA BlocksKept ==
    ASSUME BlocksOK, UNCHANGED <<accepted, commands>>,
           \A r \in Request : answer'[r].cmds \in {answer[r].cmds, <<>>}
    PROVE  BlocksOK'
<1>1. WaitLast'
  BY DEF BlocksOK, WaitLast
<1>2. ASSUME NEW r \in Request, answer'[r].cmds # <<>>
      PROVE  \E i, j \in DOMAIN accepted : Carries(r, i, j)'
  BY <1>2 DEF BlocksOK, Carries
<1> QED
  BY <1>1, <1>2 DEF BlocksOK

(* A command is added to what was taken, and to the end that waits.        *)
LEMMA EnqueueBlocks ==
    ASSUME CInv, BlocksOK, NEW r \in Request, EnqueueCommand(r)
    PROVE  BlocksOK'
<1> USE DEF EnqueueCommand, Serve, AnswerWith, Goto
<1>1. PICK x \in Command : x = req[r].arg
  BY DEF CInv, SentOK, CommandTypeOK, Bringing, Unserved
<1>2. /\ accepted \in Seq(Command) /\ accepted' = Append(accepted, x)
      /\ commands' = Append(commands, x) /\ Len(accepted') = Len(accepted) + 1
      /\ Len(accepted) \in Nat
  BY <1>1 DEF CInv, CommandTypeOK
<1>3. /\ answer'[r].cmds = <<>>
      /\ \A s \in Request \ {r} : answer'[s] = answer[s]
  BY DEF CInv, CommandTypeOK
<1>4. PICK k \in 0..Len(accepted) : commands = SubSeq(accepted, k + 1, Len(accepted))
  BY DEF BlocksOK, WaitLast
<1>5. commands' = SubSeq(accepted', k + 1, Len(accepted'))
  BY <1>2, <1>4, EndGrows
<1>6. ASSUME NEW s \in Request, answer'[s].cmds # <<>>
      PROVE  \E i, j \in DOMAIN accepted' : Carries(s, i, j)'
  <2>1. answer'[s].cmds = answer[s].cmds
    BY <1>3, <1>6
  <2>2. PICK i, j \in DOMAIN accepted : i <= j /\ answer[s].cmds = SubSeq(accepted, i, j)
    BY <1>6, <2>1 DEF BlocksOK, Carries
  <2>3. i \in 1..Len(accepted) /\ j \in 1..Len(accepted)
    BY <1>2
  <2>4. SubSeq(accepted', i, j) = SubSeq(accepted, i, j)
    BY <1>2, <2>3, BlockStays
  <2>5. i \in DOMAIN accepted' /\ j \in DOMAIN accepted'
    BY <1>2, <2>3
  <2> QED
    BY <2>1, <2>2, <2>4, <2>5 DEF Carries
<1>7. k \in 0..Len(accepted')
  BY <1>2
<1>8. WaitLast'
  BY <1>5, <1>7 DEF WaitLast
<1> QED
  BY <1>6, <1>8 DEF BlocksOK

(* All that waits goes into one answer.                                    *)
LEMMA DrainBlocks ==
    ASSUME CInv, BlocksOK, NEW r \in Request, DrainCommands(r)
    PROVE  BlocksOK'
<1> USE DEF DrainCommands, Serve, AnswerWith, Goto
<1>1. /\ answer'[r].cmds = commands /\ commands' = <<>> /\ accepted' = accepted
      /\ \A s \in Request \ {r} : answer'[s] = answer[s]
  BY DEF CInv, CommandTypeOK
<1>2. accepted \in Seq(Command) /\ Len(accepted) \in Nat
  BY DEF CInv, CommandTypeOK
<1>3. PICK k \in 0..Len(accepted) : commands = SubSeq(accepted, k + 1, Len(accepted))
  BY DEF BlocksOK, WaitLast
<1>4. commands # <<>> => k + 1 \in DOMAIN accepted /\ Len(accepted) \in DOMAIN accepted
  BY <1>2, <1>3
<1>5. SubSeq(accepted, Len(accepted) + 1, Len(accepted)) = <<>>
  BY <1>2
<1>6. ASSUME NEW s \in Request, answer'[s].cmds # <<>>
      PROVE  \E i, j \in DOMAIN accepted : Carries(s, i, j)'
  <2>1. CASE s = r
    <3>1. k + 1 \in DOMAIN accepted /\ Len(accepted) \in DOMAIN accepted /\ k + 1 <= Len(accepted)
      BY <1>1, <1>2, <1>4, <1>6, <2>1
    <3> QED
      BY <1>1, <1>3, <2>1, <3>1 DEF Carries
  <2>2. CASE s # r
    BY <1>1, <1>6, <2>2 DEF BlocksOK, Carries
  <2> QED
    BY <2>1, <2>2
<1>7. WaitLast'
  BY <1>1, <1>2, <1>5 DEF WaitLast
<1> QED
  BY <1>1, <1>6, <1>7 DEF BlocksOK

(* Every step keeps the queue the end of what was taken.                   *)
LEMMA BlocksStep == CInv /\ BlocksOK /\ [SessionNext]_sessionVars => BlocksOK'
<1> SUFFICES ASSUME CInv, BlocksOK, [SessionNext]_sessionVars
             PROVE  BlocksOK'
  OBVIOUS
<1> USE DEF store, calls
<1>1. DOMAIN answer = Request
  BY DEF CInv, CommandTypeOK
<1>2. CASE ChangeManifest \/ UNCHANGED sessionVars
  BY <1>2, BlocksKept DEF ChangeManifest, sessionVars
<1>3. ASSUME NEW r \in Request, NEW d \in SubKey, NEW op, NEW arg, Send(r, d, op, arg)
      PROVE  BlocksOK'
  BY <1>3, BlocksKept DEF Send
<1>4. ASSUME NEW r \in Request,
             AuthorizeActive(r) \/ PutSession(r) \/ GetSession(r) \/ PutBlob(r) \/ GetLatestBlob(r)
      PROVE  BlocksOK'
  <2>1. UNCHANGED <<accepted, commands>>
    BY <1>4 DEF AuthorizeActive, PutSession, GetSession, PutBlob, GetLatestBlob
  <2>2. \/ answer' = answer
        \/ \E v : answer' = [answer EXCEPT ![r] = [version |-> v, cmds |-> <<>>]]
    BY <1>4 DEF AuthorizeActive, PutSession, GetSession, PutBlob, GetLatestBlob, AnswerWith
  <2>3. \A s \in Request : answer'[s].cmds \in {answer[s].cmds, <<>>}
    BY <1>1, <2>2
  <2> QED
    BY <2>1, <2>3, BlocksKept
<1>5. ASSUME NEW r \in Request, Return(r) \/ GiveUp(r) \/ LoseRequest(r)
      PROVE  BlocksOK'
  <2>1. /\ UNCHANGED <<accepted, commands>>
        /\ answer' \in {answer, [answer EXCEPT ![r] = NoAnswer]}
    BY <1>5 DEF Return, GiveUp, LoseRequest, Free
  <2>2. \A s \in Request : answer'[s].cmds \in {answer[s].cmds, <<>>}
    BY <1>1, <2>1 DEF NoAnswer
  <2> QED
    BY <2>1, <2>2, BlocksKept
<1> QED
  BY <1>2, <1>3, <1>4, <1>5, EnqueueBlocks, DrainBlocks
  DEF SessionNext, Handle, SessionTick, CommandTick, SendCommand, SyncUp, SyncDown

(* What an answer carries may be handed to the device that waits for it.   *)
LEMMA BlockIsPending ==
    ASSUME CInv, NEW r \in Request, NEW i \in DOMAIN accepted, NEW j \in DOMAIN accepted,
           i <= j, answer[r].cmds = SubSeq(accepted, i, j)
    PROVE  /\ Mailbox!Pending(i, j)
           /\ waiting[r] =>
                \A k \in i..Len(accepted) : accepted[k] \notin ToSet(given[req[r].signer])
<1>1. /\ accepted \in Seq(Command) /\ Len(accepted) \in Nat /\ DOMAIN accepted = 1..Len(accepted)
      /\ IsInjective(accepted)
  BY DEF CInv, CommandTypeOK, PlaceOK
<1>2. ASSUME NEW k \in i..j PROVE accepted[k] \in InAnswer(r)
  <2> DEFINE s == SubSeq(accepted, i, j)
  <2>1. /\ k - i + 1 \in DOMAIN s /\ s[k - i + 1] = accepted[k]
    BY <1>1
  <2> HIDE DEF s
  <2>2. accepted[k] \in ToSet(s)
    BY <2>1, Zenon DEF ToSet
  <2> QED
    BY <2>2 DEF s, InAnswer
<1>3. Mailbox!Pending(i, j)
  <2>1. \A k \in i..j : accepted[k] \in Underway
    BY <1>2, InUnderway
  <2>2. \A k \in i..j : accepted[k] \notin AllGiven \cup lost
    BY <2>1 DEF CInv, PlaceOK
  <2> QED
    BY <2>2, InAllGiven, MailboxToSet DEF Mailbox!Pending
<1>4. ASSUME waiting[r], NEW k \in i..Len(accepted),
             accepted[k] \in ToSet(given[req[r].signer])
      PROVE  FALSE
  <2>1. accepted[i] \in InAnswer(r)
    BY <1>1, <1>2
  <2>2. Before(accepted[k], accepted[i])
    BY <1>4, <2>1 DEF CInv, OrderOK
  <2>3. PICK p, q \in DOMAIN accepted :
          p < q /\ accepted[p] = accepted[k] /\ accepted[q] = accepted[i]
    BY <2>2 DEF Before
  <2>4. p = k /\ q = i
    BY <1>1, <2>3 DEF IsInjective
  <2> QED
    BY <1>1, <2>3, <2>4
<1> QED
  BY <1>3, <1>4

(* A caller that waits is handed its block, one that gave up drops it.     *)
LEMMA ReturnIsMailboxStep ==
    ASSUME CInv, BlocksOK, NEW r \in Request, Return(r)
    PROVE  [Mailbox!MailboxNext]_(Mailbox!mailboxVars)
<1> USE DEF Mailbox!mailboxVars
<1> DEFINE d == req[r].signer
<1>1. accepted' = accepted /\ d \in SubKey /\ given \in [SubKey -> Seq(Command)]
  BY DEF Return, Free, store, CInv, CommandTypeOK
<1>2. CASE answer[r].cmds = <<>>
  <2>1. given[d] \o answer[r].cmds = given[d] /\ lost \cup ToSet(answer[r].cmds) = lost
    BY <1>1, <1>2, ToSetEmpty
  <2>2. given' = given /\ lost' = lost
    BY <1>1, <2>1 DEF Return
  <2> QED
    BY <1>1, <2>2
<1>3. CASE answer[r].cmds # <<>>
  <2>1. PICK i, j \in DOMAIN accepted : i <= j /\ answer[r].cmds = SubSeq(accepted, i, j)
    BY <1>3 DEF BlocksOK, Carries
  <2>2. phase[r] = "done" /\ req[r].op = "pullCommands"
    BY <1>3 DEF CInv, AnswersOK
  <2>3. CASE waiting[r]
    <3>1. given' = [given EXCEPT ![d] = @ \o SubSeq(accepted, i, j)] /\ lost' = lost
      BY <2>1, <2>2, <2>3 DEF Return, Got
    <3>2. Mailbox!HandOver(d, i, j)
      BY <1>1, <2>1, <2>3, <3>1, BlockIsPending, MailboxToSet DEF Mailbox!HandOver
    <3> QED
      BY <1>1, <2>1, <3>2 DEF Mailbox!MailboxNext
  <2>4. CASE ~ waiting[r]
    <3>1. given' = given /\ lost' = lost \cup ToSet(SubSeq(accepted, i, j))
      BY <2>1, <2>4 DEF Return, Got
    <3>2. Mailbox!Drop(i, j)
      BY <1>1, <2>1, <3>1, BlockIsPending, MailboxToSet DEF Mailbox!Drop
    <3> QED
      BY <2>1, <3>2 DEF Mailbox!MailboxNext
  <2> QED
    BY <2>3, <2>4
<1> QED
  BY <1>2, <1>3

(* What the relay takes is posted; no other request changes the mailbox.   *)
LEMMA MailboxStep ==
    CInv /\ BlocksOK /\ [SessionNext]_sessionVars => [Mailbox!MailboxNext]_(Mailbox!mailboxVars)
<1> SUFFICES ASSUME CInv, BlocksOK, [SessionNext]_sessionVars
             PROVE  [Mailbox!MailboxNext]_(Mailbox!mailboxVars)
  OBVIOUS
<1> USE DEF Mailbox!mailboxVars, store, calls
<1>1. CASE ChangeManifest \/ UNCHANGED sessionVars
  BY <1>1 DEF ChangeManifest, sessionVars
<1>2. ASSUME NEW r \in Request, NEW d \in SubKey, NEW op, NEW arg, Send(r, d, op, arg)
      PROVE  UNCHANGED Mailbox!mailboxVars
  BY <1>2 DEF Send
<1>3. ASSUME NEW r \in Request,
             \/ AuthorizeActive(r) \/ PutSession(r) \/ GetSession(r) \/ DrainCommands(r)
             \/ PutBlob(r) \/ GetLatestBlob(r) \/ GiveUp(r) \/ LoseRequest(r)
      PROVE  UNCHANGED Mailbox!mailboxVars
  BY <1>3 DEF AuthorizeActive, PutSession, GetSession, DrainCommands, PutBlob, GetLatestBlob,
              GiveUp, LoseRequest, Serve, Free
<1>4. ASSUME NEW r \in Request, EnqueueCommand(r)
      PROVE  Mailbox!MailboxNext
  <2>1. PICK x \in Command : x = req[r].arg
    BY <1>4 DEF CInv, SentOK, CommandTypeOK, Bringing, Unserved, EnqueueCommand, Serve
  <2>2. x \notin ToSet(accepted)
    BY <1>4, <2>1 DEF CInv, SentOK, Bringing, Unserved, EnqueueCommand, Serve
  <2>3. Mailbox!Post(x)
    BY <1>4, <2>1, <2>2, MailboxToSet DEF Mailbox!Post, EnqueueCommand, Serve
  <2> QED
    BY <2>3 DEF Mailbox!MailboxNext
<1> QED
  BY <1>1, <1>2, <1>3, <1>4, ReturnIsMailboxStep
  DEF SessionNext, Handle, SessionTick, CommandTick, SendCommand, SyncUp, SyncDown

(* relay/store.go, RemoteService.ts: with any number of devices, requests  *)
(* and commands, the relay's queue and the pollers implement the mailbox.  *)
THEOREM MailboxRefinement == SessionSpec => ImplementsMailbox
<1>1. SessionInit => Mailbox!MailboxInit
  BY DEF SessionInit, Mailbox!MailboxInit
<1> QED
  BY <1>1, BlocksStart, BlocksStep, MailboxStep, CommandInvariance, PTL
  DEF SessionSpec, ImplementsMailbox, Mailbox!MailboxSpec

=============================================================================
