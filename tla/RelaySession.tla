---------------------------- MODULE RelaySession ----------------------------
(***************************************************************************)
(* What the devices of one account do through the relay besides changing   *)
(* the manifest: publish and read the playback session, send and collect   *)
(* remote commands, and upload and download the state snapshot.            *)
(*                                                                         *)
(* A request takes several steps at the relay (goamp-node/relay): is the   *)
(* signer revoked, is it active, then the operation, each under the        *)
(* store's lock with the lock released in between, so other requests and   *)
(* changes of the manifest come between. The manifest changes atomically   *)
(* here, which DeviceManifest is shown to implement.                       *)
(*                                                                         *)
(* The Tauri commands are synchronous, so an installation waits for one    *)
(* request at a time; after its 10 s timeout it goes on although the       *)
(* request is still under way.                                             *)
(***************************************************************************)
EXTENDS ManifestRegister, FiniteSets, SequencesExt

CONSTANTS Request,     \* slots for requests that may be under way at one time
          Command,     \* remote commands; each is sent once
          Ops,         \* the operations that devices use in this instance
          Poller,      \* the devices whose poller is started and never stopped
          MaxSession,  \* bound on the session versions that devices publish
          MaxBlob,     \* bound on the number of snapshots uploaded
          Retention,   \* blobRetention: snapshots the relay keeps
          Lossy        \* may callers time out and requests get lost?

AllOps == {"putSession", "getSession", "postCommand", "pullCommands",
           "putState", "getState"}

ASSUME RelayAssumption ==
    /\ Ops \subseteq AllOps /\ Poller \subseteq SubKey
    /\ MaxSession \in Nat /\ MaxBlob \in Nat
    /\ IsFiniteSet(Request)
    /\ Retention \in Nat \ {0}
    /\ Lossy \in BOOLEAN

VARIABLES session,   \* MemStore.sessions[account_pub]
          commands,  \* MemStore.commands[account_pub]
          blobs,     \* MemStore.blobs[account_pub]; a snapshot is its number
          uploads,   \* how many snapshots were stored so far
          phase,     \* where each request is
          req,       \* the requests
          answer,    \* what the relay answers to each request
          waiting,   \* is the installation still waiting for the answer?
          sent,      \* history: the commands sent
          accepted,  \* history: the commands queued, in that order
          given,     \* history: what each device's onCommand was called with
          lost,      \* history: the commands pulled for a caller that gave up
          written,   \* history: the session versions answered "ok", by whom
          backedUp   \* history: the newest snapshot whose upload was answered "ok"

store == <<session, commands, blobs, uploads, accepted>>
calls == <<phase, req, answer, waiting>>
sessionVars == <<manifest, store, calls, sent, given, lost, written, backedUp>>

-----------------------------------------------------------------------------
Phases == {"free", "sent", "checked", "authorized", "refused", "done"}

\* version 0: no session
NoSession == [version |-> 0, by |-> Creator]
NoAnswer  == [version |-> 0, cmds |-> <<>>]

\* late: was the signer revoked before the request was made?
\* floor: the last write of that kind acknowledged before the request was made
Idle == [op |-> "getState", signer |-> Creator, arg |-> 0, late |-> FALSE, floor |-> 0]

SessionTypeOK ==
    /\ manifest \in Manifest
    /\ session \in [version : 0..MaxSession, by : SubKey]
    /\ commands \in Seq(Command)
    /\ blobs \in Seq(1..uploads) /\ Len(blobs) <= Retention
    /\ uploads \in 0..MaxBlob
    /\ phase \in [Request -> Phases]
    /\ \A r \in Request :
        /\ req[r].op \in AllOps /\ req[r].signer \in SubKey
        /\ answer[r].version \in Nat /\ answer[r].cmds \in Seq(Command)
    /\ waiting \in [Request -> BOOLEAN]
    /\ sent \subseteq Command
    /\ accepted \in Seq(Command)
    /\ given \in [SubKey -> Seq(Command)] /\ lost \subseteq Command
    /\ written \subseteq [version : 1..MaxSession, by : SubKey]
    /\ backedUp \in 0..uploads

SessionInit ==
    /\ manifest = FirstManifest
    /\ session = NoSession
    /\ commands = <<>> /\ blobs = <<>> /\ uploads = 0
    /\ phase = [r \in Request |-> "free"]
    /\ req = [r \in Request |-> Idle]
    /\ answer = [r \in Request |-> NoAnswer]
    /\ waiting = [r \in Request |-> FALSE]
    /\ sent = {}
    /\ accepted = <<>>
    /\ given = [d \in SubKey |-> <<>>] /\ lost = {}
    /\ written = {} /\ backedUp = 0

-----------------------------------------------------------------------------
\* a step of the account's manifest
ChangeManifest ==
    /\ Next
    /\ UNCHANGED <<store, calls, sent, given, lost, written, backedUp>>

-----------------------------------------------------------------------------
(* An installation makes a request.                                        *)

Floor(op) ==
    IF op = "getSession" THEN Max({0} \cup {w.version : w \in written})
    ELSE IF op = "getState" THEN backedUp ELSE 0

\* faulty variant: requests of one installation overlap
NeverBusy(d) == FALSE

Busy(d) == \E r \in Request : waiting[r] /\ req[r].signer = d

Send(r, d, op, arg) ==
    /\ op \in Ops
    /\ phase[r] = "free"
    /\ d \in Known(manifest)
    /\ ~ Busy(d)
    /\ phase' = [phase EXCEPT ![r] = "sent"]
    /\ req' = [req EXCEPT ![r] = [op |-> op, signer |-> d, arg |-> arg,
                                  late |-> d \in manifest.revoked,
                                  floor |-> Floor(op)]]
    /\ waiting' = [waiting EXCEPT ![r] = TRUE]
    /\ UNCHANGED <<manifest, store, answer, given, lost, written, backedUp>>

(* A poller that runs publishes its session if it has a sessionProvider,   *)
(* else reads the session. Any device may start one and stop it again at   *)
(* any time, so a tick may come at any time or never.                      *)
SessionTick(r, d) ==
    /\ \/ \E v \in 1..MaxSession : Send(r, d, "putSession", v)
       \/ Send(r, d, "getSession", 0)
    /\ UNCHANGED sent

\* The active device and the controllers alike pull commands.
CommandTick(r, d) == Send(r, d, "pullCommands", 0) /\ UNCHANGED sent

SendCommand(r, d, c) ==
    /\ c \notin sent
    /\ sent' = sent \cup {c}
    /\ Send(r, d, "postCommand", c)

\* uploads are bounded by MaxBlob
SyncUp(r, d) ==
    /\ uploads + Cardinality({x \in Request : req[x].op = "putState"}) < MaxBlob
    /\ Send(r, d, "putState", 0)
    /\ UNCHANGED sent

SyncDown(r, d) == Send(r, d, "getState", 0) /\ UNCHANGED sent

-----------------------------------------------------------------------------
(* The relay handles a request.                                            *)

Goto(r, p) == phase' = [phase EXCEPT ![r] = p]

\* faulty variant: only the signature is verified
SignatureOnly(r) ==
    /\ phase[r] = "sent"
    /\ Goto(r, "authorized")
    /\ UNCHANGED <<manifest, store, req, answer, waiting, sent, given, lost, written, backedUp>>

\* authorizeActive: IsRevoked, then IsActive
AuthorizeActive(r) ==
    /\ \/ /\ phase[r] = "sent"
          /\ Goto(r, IF req[r].signer \in manifest.revoked THEN "refused" ELSE "checked")
       \/ /\ phase[r] = "checked"
          /\ Goto(r, IF req[r].signer \in manifest.devices THEN "authorized" ELSE "refused")
    /\ UNCHANGED <<manifest, store, req, answer, waiting, sent, given, lost, written, backedUp>>

Serve(r, op) ==
    /\ phase[r] = "authorized"
    /\ req[r].op = op
    /\ UNCHANGED <<manifest, req, waiting, sent, given, lost, written, backedUp>>

AnswerWith(r, version, cmds) ==
    /\ Goto(r, "done")
    /\ answer' = [answer EXCEPT ![r] = [version |-> version, cmds |-> cmds]]

\* faulty variant: an equal version is taken too
NotStale(v) == v >= session.version

NewerSession(v) == v > session.version

PutSession(r) ==
    /\ Serve(r, "putSession")
    /\ \/ /\ NewerSession(req[r].arg)
          /\ session' = [version |-> req[r].arg, by |-> req[r].signer]
          /\ AnswerWith(r, 0, <<>>)
       \/ /\ ~ NewerSession(req[r].arg)
          /\ Goto(r, "refused")
          /\ UNCHANGED <<session, answer>>
    /\ UNCHANGED <<commands, blobs, uploads, accepted>>

GetSession(r) ==
    /\ Serve(r, "getSession")
    /\ AnswerWith(r, session.version, <<>>)
    /\ UNCHANGED store

\* faulty variant: the command replaces those that wait
ReplaceCommands(r) ==
    /\ Serve(r, "postCommand")
    /\ commands' = <<req[r].arg>>
    /\ accepted' = Append(accepted, req[r].arg)
    /\ AnswerWith(r, 0, <<>>)
    /\ UNCHANGED <<session, blobs, uploads>>

EnqueueCommand(r) ==
    /\ Serve(r, "postCommand")
    /\ commands' = Append(commands, req[r].arg)
    /\ accepted' = Append(accepted, req[r].arg)
    /\ AnswerWith(r, 0, <<>>)
    /\ UNCHANGED <<session, blobs, uploads>>

\* faulty variants: the queue is returned and not cleared; all commands are
\* cleared and one is returned
PeekCommands(r) ==
    /\ Serve(r, "pullCommands")
    /\ AnswerWith(r, 0, commands)
    /\ UNCHANGED store

DrainFirst(r) ==
    /\ Serve(r, "pullCommands")
    /\ AnswerWith(r, 0, SubSeq(commands, 1, Min({1, Len(commands)})))
    /\ commands' = <<>>
    /\ UNCHANGED <<session, blobs, uploads, accepted>>

DrainCommands(r) ==
    /\ Serve(r, "pullCommands")
    /\ AnswerWith(r, 0, commands)
    /\ commands' = <<>>
    /\ UNCHANGED <<session, blobs, uploads, accepted>>

\* faulty variants: all snapshots are kept; the oldest are
KeepAll(s) == s

Oldest(s) == SubSeq(s, 1, IF Len(s) > Retention THEN Retention ELSE Len(s))

Retained(s) == IF Len(s) > Retention THEN SubSeq(s, Len(s) - Retention + 1, Len(s)) ELSE s

PutBlob(r) ==
    /\ Serve(r, "putState")
    /\ uploads' = uploads + 1
    /\ blobs' = Retained(Append(blobs, uploads'))
    /\ AnswerWith(r, uploads', <<>>)
    /\ UNCHANGED <<session, commands, accepted>>

GetLatestBlob(r) ==
    /\ Serve(r, "getState")
    /\ AnswerWith(r, IF blobs = <<>> THEN 0 ELSE Last(blobs), <<>>)
    /\ UNCHANGED store

-----------------------------------------------------------------------------
(* The answer reaches the installation, or does not.                       *)

Free(r) ==
    /\ Goto(r, "free")
    /\ req' = [req EXCEPT ![r] = Idle]
    /\ answer' = [answer EXCEPT ![r] = NoAnswer]
    /\ waiting' = [waiting EXCEPT ![r] = FALSE]
    /\ UNCHANGED <<manifest, store, sent>>

Got(r, ops) == phase[r] = "done" /\ waiting[r] /\ req[r].op \in ops

\* A poller hands over what it pulled even if it was stopped meanwhile.
Return(r) ==
    /\ phase[r] \in {"done", "refused"}
    /\ given' = IF Got(r, {"pullCommands"})
                THEN [given EXCEPT ![req[r].signer] = @ \o answer[r].cmds]
                ELSE given
    /\ lost' = IF waiting[r] THEN lost ELSE lost \cup ToSet(answer[r].cmds)
    /\ written' = IF Got(r, {"putSession"})
                  THEN written \cup {[version |-> req[r].arg, by |-> req[r].signer]}
                  ELSE written
    /\ backedUp' = IF Got(r, {"putState"})
                   THEN Max({backedUp, answer[r].version})
                   ELSE backedUp
    /\ Free(r)

GiveUp(r) ==
    /\ Lossy
    /\ phase[r] # "free"
    /\ waiting[r]
    /\ waiting' = [waiting EXCEPT ![r] = FALSE]
    /\ UNCHANGED <<manifest, store, phase, req, answer, sent, given, lost, written, backedUp>>

LoseRequest(r) ==
    /\ Lossy
    /\ phase[r] = "sent"
    /\ Free(r)
    /\ UNCHANGED <<given, lost, written, backedUp>>

-----------------------------------------------------------------------------
Handle(r) ==
    \/ AuthorizeActive(r)
    \/ PutSession(r) \/ GetSession(r)
    \/ EnqueueCommand(r) \/ DrainCommands(r)
    \/ PutBlob(r) \/ GetLatestBlob(r)

SessionNext ==
    \/ ChangeManifest
    \/ \E r \in Request, d \in SubKey :
        \/ SessionTick(r, d)
        \/ CommandTick(r, d)
        \/ \E c \in Command : SendCommand(r, d, c)
        \/ SyncUp(r, d)
        \/ SyncDown(r, d)
    \/ \E r \in Request : Handle(r) \/ Return(r) \/ GiveUp(r) \/ LoseRequest(r)

SessionSpec == SessionInit /\ [][SessionNext]_sessionVars

-----------------------------------------------------------------------------
(* Safety.                                                                 *)

(* A device that was revoked before it made a request gets nothing done,   *)
(* whatever changes of the manifest come between the relay's checks.       *)
RevokedLockedOut ==
    \A r \in Request : phase[r] \in {"authorized", "done"} => ~ req[r].late

(* Two devices that both believe to be the active one may publish the same *)
(* session version: only one of them is told "ok".                         *)
OneWriterPerVersion ==
    \A a, b \in written : a.version = b.version => a.by = b.by

(* A read sees every write acknowledged before the read was made: the      *)
(* session and the newest snapshot never go back.                          *)
ReadsAreFresh ==
    \A r \in Request :
        phase[r] = "done" /\ req[r].op \in {"getSession", "getState"}
            => answer[r].version >= req[r].floor

AllGiven == UNION {ToSet(given[d]) : d \in SubKey}

(* No command is handed to onCommand twice, be it on one device or on two. *)
GivenOnce ==
    /\ \A d \in SubKey : IsInjective(given[d])
    /\ \A d, e \in SubKey : d # e => ToSet(given[d]) \cap ToSet(given[e]) = {}

(* Each device is handed its commands in the order the relay took them.    *)
Before(c, e) ==
    \E i, j \in DOMAIN accepted : i < j /\ accepted[i] = c /\ accepted[j] = e

InOrder(s) == \A i, j \in DOMAIN s : i < j => Before(s[i], s[j])

GivenInOrder == \A d \in SubKey : InOrder(given[d])

(* The commands the relay took are, each in one place only, in its queue,  *)
(* on the way to a device, handed over (to one device, once), or lost with *)
(* an answer nobody waited for.                                            *)
InAnswer(r) == ToSet(answer[r].cmds)

Underway == UNION {InAnswer(r) : r \in Request}

EachInOnePlace ==
    /\ IsInjective(accepted) /\ IsInjective(commands) /\ GivenOnce
    /\ ToSet(accepted) = ToSet(commands) \cup Underway \cup AllGiven \cup lost
    /\ ToSet(commands) \cap (Underway \cup AllGiven \cup lost) = {}
    /\ Underway \cap (AllGiven \cup lost) = {} /\ AllGiven \cap lost = {}
    /\ \A r, s \in Request : r # s => InAnswer(r) \cap InAnswer(s) = {}

(* However requests overlap, get lost or are given up, queue and pollers   *)
(* behave as a mailbox that hands over consecutive commands as one block.  *)
Mailbox == INSTANCE CommandMailbox WITH
    Device <- SubKey, posted <- accepted, handed <- given, dropped <- lost

ImplementsMailbox == Mailbox!MailboxSpec

-----------------------------------------------------------------------------
(* Liveness. Handlers run to their end. The 1 s timer queues a pull of     *)
(* every running poller behind the installation's other requests, and the  *)
(* main thread serves them in order, so a pull gets its turn again and     *)
(* again, and the network does not lose every one of them: strong fairness.*)

Pull(d) == \E r \in Request : CommandTick(r, d)

PullArrives(d) ==
    \E r \in Request :
        /\ phase[r] = "sent" /\ req[r].op = "pullCommands" /\ req[r].signer = d
        /\ AuthorizeActive(r)

FairSessionSpec ==
    /\ SessionSpec
    /\ \A r \in Request : WF_sessionVars(Handle(r)) /\ WF_sessionVars(Return(r))
    /\ \A d \in Poller : SF_sessionVars(Pull(d)) /\ SF_sessionVars(PullArrives(d))

PollsForEver == \E d \in Poller : <>[](d \in manifest.devices)

(* While an active device polls, every command the relay took is handed to *)
(* some device in the end, unless it was drained for a caller that gave up.*)
CommandArrives ==
    PollsForEver => \A c \in Command : (c \in ToSet(accepted)) ~> (c \in AllGiven \cup lost)

(* "swallow - transient network; next tick retries": a failed pull costs   *)
(* no command, the next one gets it.                                       *)
NextTickRetries ==
    PollsForEver => \A c \in Command : (c \in ToSet(accepted)) ~> (c \in AllGiven)

=============================================================================
