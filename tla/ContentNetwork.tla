--------------------------- MODULE ContentNetwork ---------------------------
(***************************************************************************)
(* Track content between nodes: each node keeps tracks as files in an      *)
(* archive with a quota (goamp-node/sdk/archive), announces those it       *)
(* provides to the DHT, serves them to peers, and fetches what it lacks    *)
(* (goamp-node/sdk/node/content_protocol.go).                              *)
(*                                                                         *)
(* LocalArchive has no lock: the HTTP handlers and the content protocol    *)
(* call it from goroutines of their own, and every file operation is a     *)
(* step of its own. A file is written in pieces (here: byte by byte), and  *)
(* a read in between sees what is there; a read is one step. The DHT is    *)
(* external: it returns some of the nodes that announced a track.          *)
(***************************************************************************)
EXTENDS Integers, FiniteSetsExt, SequencesExt

CONSTANTS Node,         \* goamp-node processes
          Track,        \* content ids
          Data,         \* audio files; one track may be encoded differently
          TrackOf,      \* the track of each file
          Size,         \* its size
          Quota,        \* quota in bytes; 0 = unlimited
          Call,         \* slots for calls in progress
          MaxCalls,     \* bound on the number of calls made
          MaxRestarts   \* bound on the number of restarts

ASSUME ContentAssumption ==
    /\ TrackOf \in [Data -> Track] /\ Size \in [Data -> Nat \ {0}]
    /\ Quota \in Nat /\ MaxCalls \in Nat /\ MaxRestarts \in Nat

VARIABLES disk,       \* the archive directory of each node: file name -> bytes
          used,       \* LocalArchive.used
          count,      \* LocalArchive.count
          announced,  \* the tracks each node is a DHT provider of
          pc,         \* where each call is
          job,        \* what each call works on
          made,       \* how many calls were made
          restarts,   \* how many restarts there were
          health      \* history: see Unsettle

archive == <<disk, used, count>>
contentVars == <<archive, announced, pc, job, made, restarts, health>>

-----------------------------------------------------------------------------
\* A file is the sequence of its bytes, each marked with where it came from.
Hole == <<"zero">>

Bytes(d) == [i \in 1..Size[d] |-> <<d, i>>]

AnyByte == {Hole} \cup UNION {ToSet(Bytes(d)) : d \in Data}

\* faulty variant: the name is the part of the id that many ids share
SourceKey(t) == <<"sha256">>

\* the file name of a track: a hash that takes no two ids to the same name
Key(t) == <<"sha256", t>>

Usage(n) == MapThenSumSet(LAMBDA k : Len(disk[n][k]), DOMAIN disk[n])

Storing == {"open", "write", "account"}

Phases == {"idle", "local", "find", "fetch", "store", "announce", "served", "failed"}
              \cup Storing

\* prev: size of the file that is overwritten, -1 if there is none
\* done: how many bytes of the file are written
\* left: providers not asked yet
Job(kind, n, t, bytes) ==
    [kind |-> kind, node |-> n, track |-> t, bytes |-> bytes,
     prev |-> -1, newUsed |-> 0, done |-> 0, left |-> {}]

NoJob == [kind |-> "none"]

ContentTypeOK ==
    /\ \A n \in Node : /\ DOMAIN disk[n] \subseteq {Key(t) : t \in Track}
                       /\ \A k \in DOMAIN disk[n] : disk[n][k] \in Seq(AnyByte)
    /\ used \in [Node -> Int] /\ count \in [Node -> Nat]
    /\ announced \in [Node -> SUBSET Track]
    /\ pc \in [Call -> Phases]
    /\ \A c \in Call : IF pc[c] = "idle" THEN job[c] = NoJob ELSE
        /\ job[c].kind \in {"provide", "get"} /\ job[c].node \in Node
        /\ job[c].track \in Track /\ job[c].bytes \in Seq(AnyByte)
        /\ job[c].prev \in Int /\ job[c].newUsed \in Int
        /\ job[c].done \in 0..Len(job[c].bytes) /\ job[c].left \subseteq Node
    /\ made \in 0..MaxCalls /\ restarts \in 0..MaxRestarts
    /\ health \in [Node -> {"calm", "unsettled", "rescanned"}]

ContentInit ==
    /\ disk = [n \in Node |-> << >>]
    /\ used = [n \in Node |-> 0] /\ count = [n \in Node |-> 0]
    /\ announced = [n \in Node |-> {}]
    /\ pc = [c \in Call |-> "idle"] /\ job = [c \in Call |-> NoJob]
    /\ made = 0 /\ restarts = 0
    /\ health = [n \in Node |-> "calm"]

-----------------------------------------------------------------------------
Goto(c, p) == pc' = [pc EXCEPT ![c] = p]

At(c, p) == pc[c] = p

\* History: the stores of node n overlapped, or one was cut short.
Unsettle(n) == health' = [health EXCEPT ![n] = "unsettled"]

Begin(c, p, j) ==
    /\ At(c, "idle") /\ Goto(c, p)
    /\ made < MaxCalls /\ made' = made + 1
    /\ job' = [job EXCEPT ![c] = j]
    /\ UNCHANGED <<archive, announced, restarts, health>>

Providing(n, d) == Job("provide", n, TrackOf[d], Bytes(d))

\* faulty variant: the announcement does not wait for the store
AnnounceFirst(c, n, d) == Begin(c, "announce", Providing(n, d))

\* handleContentProvide has read a downloaded file
BeginProvide(c, n, d) == Begin(c, "store", Providing(n, d))

BeginGet(c, n, t) == Begin(c, "local", Job("get", n, t, <<>>))

-----------------------------------------------------------------------------
(* LocalArchive.Store, called by both.                                     *)

\* faulty variant: an overwritten file counts twice
NoDelta(c, prev) == used[job[c].node] + Len(job[c].bytes)

NewUsed(c, prev) == used[job[c].node] + Len(job[c].bytes) - (IF prev >= 0 THEN prev ELSE 0)

\* faulty variant: the quota is compared before the store is added
UsedFits(newUsed, n) == Quota = 0 \/ used[n] <= Quota

Fits(newUsed, n) == Quota = 0 \/ newUsed <= Quota

\* a provider reports the error, GetContent ignores it
StoreFailed(c) == IF job[c].kind = "provide" THEN "failed" ELSE "served"

CheckQuota(c) ==
    LET n == job[c].node
        k == Key(job[c].track)
        prev == IF k \in DOMAIN disk[n] THEN Len(disk[n][k]) ELSE -1
        newUsed == NewUsed(c, prev)
    IN  /\ At(c, "store")
        /\ job' = [job EXCEPT ![c].prev = prev, ![c].newUsed = newUsed]
        /\ Goto(c, IF Fits(newUsed, n) THEN "open" ELSE StoreFailed(c))
        /\ IF \E x \in Call : pc[x] \in Storing /\ job[x].node = n
           THEN Unsettle(n) ELSE UNCHANGED health
        /\ UNCHANGED <<archive, announced, made, restarts>>

SetFile(n, k, bytes) ==
    disk' = [disk EXCEPT ![n] = [x \in DOMAIN @ \cup {k} |-> IF x = k THEN bytes ELSE @[x]]]

\* os.WriteFile: opens with O_TRUNC, unless that fails, ...
OpenTruncated(c) ==
    /\ At(c, "open")
    /\ \/ Goto(c, "write") /\ SetFile(job[c].node, Key(job[c].track), <<>>)
       \/ Goto(c, StoreFailed(c)) /\ UNCHANGED disk
    /\ UNCHANGED <<used, count, announced, job, made, restarts, health>>

WriteAt(file, i, byte) ==
    [j \in 1..Max({i, Len(file)}) |->
        IF j = i THEN byte ELSE IF j <= Len(file) THEN file[j] ELSE Hole]

\* ... then writes at an offset of its own, whatever others do to the file.
Write(c) ==
    LET n == job[c].node
        k == Key(job[c].track)
        i == job[c].done + 1
    IN  /\ At(c, "write")
        /\ i <= Len(job[c].bytes)
        /\ SetFile(n, k, WriteAt(disk[n][k], i, job[c].bytes[i]))
        /\ job' = [job EXCEPT ![c].done = i]
        /\ IF i = Len(job[c].bytes) THEN Goto(c, "account") ELSE UNCHANGED pc
        /\ UNCHANGED <<used, count, announced, made, restarts, health>>

\* The disk is full: the bytes written so far stay, and are not accounted for.
WriteFails(c) ==
    /\ At(c, "write")
    /\ Goto(c, StoreFailed(c))
    /\ Unsettle(job[c].node)
    /\ UNCHANGED <<archive, announced, job, made, restarts>>

\* faulty variant: an overwritten file counts as removed
CountOverwritten(c) ==
    LET n == job[c].node
    IN  /\ At(c, "account")
        /\ used' = [used EXCEPT ![n] = job[c].newUsed]
        /\ count' = [count EXCEPT ![n] = IF job[c].prev < 0 THEN @ + 1 ELSE @ - 1]
        /\ Goto(c, IF job[c].kind = "provide" THEN "announce" ELSE "served")
        /\ UNCHANGED <<disk, announced, job, made, restarts, health>>

Account(c) ==
    LET n == job[c].node
    IN  /\ At(c, "account")
        /\ used' = [used EXCEPT ![n] = job[c].newUsed]
        /\ count' = [count EXCEPT ![n] = IF job[c].prev < 0 THEN @ + 1 ELSE @]
        /\ Goto(c, IF job[c].kind = "provide" THEN "announce" ELSE "served")
        /\ UNCHANGED <<disk, announced, job, made, restarts, health>>

-----------------------------------------------------------------------------
(* ProvideContent announces after the store; the DHT call may fail.        *)
Announce(c) ==
    /\ At(c, "announce")
    /\ \/ /\ announced' = [announced EXCEPT ![job[c].node] = @ \cup {job[c].track}]
          /\ Goto(c, "served")
       \/ Goto(c, "failed") /\ UNCHANGED announced
    /\ UNCHANGED <<archive, job, made, restarts, health>>

\* LocalArchive.Retrieve; an empty file is a miss
Holds(n, t) == Key(t) \in DOMAIN disk[n] /\ disk[n][Key(t)] # <<>>

(* GetContent looks in the archive, asks the DHT, then one provider after  *)
(* the other, and caches what it gets without announcing it.               *)
LookLocal(c) ==
    LET n == job[c].node
        t == job[c].track
    IN  /\ At(c, "local")
        /\ \/ /\ Holds(n, t)
              /\ job' = [job EXCEPT ![c].bytes = disk[n][Key(t)]]
              /\ Goto(c, "served")
           \/ ~ Holds(n, t) /\ Goto(c, "find") /\ UNCHANGED job
        /\ UNCHANGED <<archive, announced, made, restarts, health>>

FindProviders(c) ==
    /\ At(c, "find") /\ Goto(c, "fetch")
    /\ \E found \in SUBSET {p \in Node : job[c].track \in announced[p]} :
           job' = [job EXCEPT ![c].left = found \ {job[c].node}]
    /\ UNCHANGED <<archive, announced, made, restarts, health>>

\* The peer serves its file, or holds none, or cannot be reached.
FetchContent(c, p) ==
    LET t == job[c].track
    IN  /\ At(c, "fetch")
        /\ p \in job[c].left
        /\ \/ /\ Holds(p, t)
              /\ job' = [job EXCEPT ![c].bytes = disk[p][Key(t)], ![c].left = {}]
              /\ Goto(c, "store")
           \/ /\ job' = [job EXCEPT ![c].left = @ \ {p}]
              /\ UNCHANGED pc
        /\ UNCHANGED <<archive, announced, made, restarts, health>>

NoProvider(c) ==
    /\ At(c, "fetch")
    /\ job[c].left = {}
    /\ Goto(c, "failed")
    /\ UNCHANGED <<archive, announced, job, made, restarts, health>>

Return(c) ==
    /\ pc[c] \in {"served", "failed"}
    /\ Goto(c, "idle")
    /\ job' = [job EXCEPT ![c] = NoJob]
    /\ UNCHANGED <<archive, announced, made, restarts, health>>

-----------------------------------------------------------------------------
\* faulty variant: usage is not measured on startup
NoScan(n) ==
    /\ used' = [used EXCEPT ![n] = 0]
    /\ count' = [count EXCEPT ![n] = 0]

\* archive.New measures the directory
Scan(n) ==
    /\ used' = [used EXCEPT ![n] = Usage(n)]
    /\ count' = [count EXCEPT ![n] = Cardinality(DOMAIN disk[n])]

\* A node crashes and starts again: its calls and its provider records are
\* gone, a file that was being written stays as it is.
Restart(n) ==
    LET here == {c \in Call : pc[c] # "idle" /\ job[c].node = n}
    IN  /\ restarts < MaxRestarts
        /\ restarts' = restarts + 1
        /\ pc' = [c \in Call |-> IF c \in here THEN "idle" ELSE pc[c]]
        /\ job' = [c \in Call |-> IF c \in here THEN NoJob ELSE job[c]]
        /\ announced' = [announced EXCEPT ![n] = {}]
        /\ Scan(n)
        /\ health' = [health EXCEPT ![n] = IF @ = "calm" THEN "calm" ELSE "rescanned"]
        /\ UNCHANGED <<disk, made>>

-----------------------------------------------------------------------------
ContentNext ==
    \/ \E c \in Call, n \in Node :
        \/ \E d \in Data : BeginProvide(c, n, d)
        \/ \E t \in Track : BeginGet(c, n, t)
        \/ FetchContent(c, n)
    \/ \E c \in Call :
        \/ CheckQuota(c) \/ OpenTruncated(c)
        \/ Write(c) \/ WriteFails(c)
        \/ Account(c) \/ Announce(c)
        \/ LookLocal(c) \/ FindProviders(c) \/ NoProvider(c)
        \/ Return(c)
    \/ \E n \in Node : Restart(n)

ContentSpec == ContentInit /\ [][ContentNext]_contentVars

-----------------------------------------------------------------------------
\* no store of node n is between its check and its bookkeeping
Quiet(n) == \A c \in Call : pc[c] \in Storing => job[c].node # n

(* The reported usage is what the directory holds, unless stores of the    *)
(* node overlapped or were cut short since it started.                     *)
UsageExact ==
    \A n \in Node :
        Quiet(n) /\ health[n] # "unsettled"
            => used[n] = Usage(n) /\ count[n] = Cardinality(DOMAIN disk[n])

(* A node whose stores never overlapped and never were cut short keeps its *)
(* quota, crashes included.                                                *)
CalmNodeKeepsQuota ==
    \A n \in Node : Quota > 0 /\ health[n] = "calm" => Usage(n) <= Quota

(* "Storage stays within quota", for every node.                           *)
QuotaKept == \A n \in Node : Quota > 0 => Usage(n) <= Quota

Calm == \A n \in Node : health[n] = "calm"

(* "B receives exactly the bytes A stored": what a node gets from a peer    *)
(* that has provided the track is one whole file of it. This would hold if *)
(* the peer did not store the track again, or crash doing so, meanwhile.   *)
FetchedWhole ==
    Calm => \A c \in Call : At(c, "store") =>
                \E d \in Data : TrackOf[d] = job[c].track /\ job[c].bytes = Bytes(d)

(* What does hold, although files are served, cached and served again      *)
(* while they are written, and nodes crash: if a track has one encoding,   *)
(* an answer is a beginning of it, and never another track's bytes or a    *)
(* mixture, unless stores overlapped on some node or were cut short.       *)
AnswersBeginning ==
    Calm => \A c \in Call, d \in Data :
                /\ At(c, "served") /\ TrackOf[d] = job[c].track
                /\ \A e \in Data : TrackOf[e] = TrackOf[d] => e = d
                => job[c].bytes # <<>> /\ IsPrefix(job[c].bytes, Bytes(d))

(* A node the DHT names as a provider has a file of the track.             *)
ProviderHasFile ==
    \A n \in Node, t \in Track : t \in announced[n] => Key(t) \in DOMAIN disk[n]

=============================================================================
