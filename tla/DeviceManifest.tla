--------------------------- MODULE DeviceManifest ---------------------------
(***************************************************************************)
(* The device manifest of one account, as the relay (goamp-node/relay)     *)
(* stores it and as the calls of the sidecars (goamp-node/api) change it.  *)
(*                                                                         *)
(* A call that adds or revokes a device fetches the manifest, edits it     *)
(* locally, bumps the version and pushes the result. Calls of several      *)
(* devices run at the same time; the relay handles a push in two steps,    *)
(* each under the store's lock but with the lock released in between. The  *)
(* caller (the Tauri backend, 10 s timeout) may give up while the sidecar  *)
(* goes on, and a push may never reach the relay.                          *)
(*                                                                         *)
(* Every map of the store is keyed by account_pub and a handler touches    *)
(* only its own key, so one account is modelled.                           *)
(***************************************************************************)
EXTENDS Naturals, FiniteSets

CONSTANTS SubKey,    \* sub-keys; a recovery generates a fresh one
          Creator,   \* the sub-key of the device that created the account
          NoKey,     \* "no signature header"
          Call,      \* slots for calls that may be in progress at one time
          Lossy      \* may callers time out and pushes get lost?

ASSUME ManifestAssumption ==
    /\ Creator \in SubKey
    /\ NoKey \notin SubKey
    /\ Lossy \in BOOLEAN

VARIABLES relay,      \* MemStore.manifests[account_pub]
          generated,  \* the sub-keys generated so far
          keychain,   \* the sub-keys some installation holds in its OS keychain
          pc,         \* where each call is
          call,       \* the push each call makes
          waiting,    \* is the caller of this call still waiting for its answer?
          confirmed   \* history: the sub-keys whose revocation was answered "ok"

vars == <<relay, generated, keychain, pc, call, waiting, confirmed>>

Register == INSTANCE ManifestRegister WITH manifest <- relay

-----------------------------------------------------------------------------
Manifest      == Register!Manifest
NoManifest    == Register!NoManifest
FirstManifest == Register!FirstManifest
Exists(m)     == Register!Exists(m)
Known(m)      == Register!Known(m)

Phases == {"idle", "putting", "authorized", "stored", "refused"}

(* base is the manifest the call fetched, next the one it pushes, signer   *)
(* the sub-key in X-GOAMP-Sig, key the device it is about.                 *)
Push == [kind : {"bootstrap", "recover", "revoke"}, key : SubKey,
         signer : SubKey \cup {NoKey}, base : Manifest, next : Manifest]

Bootstrap == [kind |-> "bootstrap", key |-> Creator, signer |-> NoKey,
              base |-> NoManifest, next |-> FirstManifest]

TypeOK ==
    /\ relay \in Manifest
    /\ generated \in SUBSET SubKey
    /\ keychain \in SUBSET SubKey
    /\ pc \in [Call -> Phases]
    /\ call \in [Call -> Push]
    /\ waiting \in [Call -> BOOLEAN]
    /\ confirmed \in SUBSET SubKey

(* account_create has run: the creating device has its sub-key in the      *)
(* keychain and manifest v1 in hand, which no relay has seen yet.          *)
Init ==
    /\ relay = NoManifest
    /\ generated = {Creator}
    /\ keychain = {Creator}
    /\ pc = [c \in Call |-> "idle"]
    /\ call = [c \in Call |-> Bootstrap]
    /\ waiting = [c \in Call |-> FALSE]
    /\ confirmed = {}

-----------------------------------------------------------------------------
(* Steps of the sidecar: start a call, up to the request it pushes.        *)

BeginPush(c, push) ==
    /\ pc[c] = "idle"
    /\ pc' = [pc EXCEPT ![c] = "putting"]
    /\ call' = [call EXCEPT ![c] = push]
    /\ waiting' = [waiting EXCEPT ![c] = TRUE]
    /\ UNCHANGED <<relay, keychain, confirmed>>

EndCall(c) ==
    /\ pc' = [pc EXCEPT ![c] = "idle"]
    /\ call' = [call EXCEPT ![c] = Bootstrap]
    /\ waiting' = [waiting EXCEPT ![c] = FALSE]

\* The push of manifest v1, unsigned; it may be repeated.
PushFirst(c) ==
    /\ BeginPush(c, Bootstrap)
    /\ UNCHANGED generated

\* faulty variant: the devices of the fetched manifest are not copied
ForgetfulRecovery(k) ==
    [kind |-> "recover", key |-> k, signer |-> k, base |-> relay,
     next |-> [Register!WithDevice(relay, k) EXCEPT !.devices = {k}]]

(* handleAccountRecover up to the push. The fresh sub-key signs: it is     *)
(* active in the manifest that is pushed.                                  *)
Recovery(k) ==
    [kind |-> "recover", key |-> k, signer |-> k,
     base |-> relay, next |-> Register!WithDevice(relay, k)]

StartRecover(c, k) ==
    /\ Exists(relay)
    /\ k \notin generated
    /\ generated' = generated \cup {k}
    /\ BeginPush(c, Recovery(k))

(* handleAccountRevoke up to the push. Any device that still holds its     *)
(* sub-key may call, on any active device, itself included.                *)
Revocation(k, caller) ==
    [kind |-> "revoke", key |-> k, signer |-> caller,
     base |-> relay, next |-> Register!WithoutDevice(relay, k)]

\* faulty variant: the last device can be revoked
AnyTargetRevoke(c, k, caller) ==
    /\ caller \in keychain
    /\ k \in relay.devices
    /\ BeginPush(c, Revocation(k, caller))
    /\ UNCHANGED generated

StartRevoke(c, k, caller) ==
    /\ caller \in keychain
    /\ k \in relay.devices
    /\ relay.devices # {k}             \* "cannot revoke last device"
    /\ BeginPush(c, Revocation(k, caller))
    /\ UNCHANGED generated

-----------------------------------------------------------------------------
(* Steps of the relay's putManifest handler.                               *)

\* faulty variants: only the old manifest counts; nothing is checked
MaySignOld(push) == Exists(relay) => push.signer \in relay.devices
MaySignAnything(push) == TRUE

\* The first manifest needs no signature; an update needs one by a sub-key
\* active in the manifest it finds or in the one it brings.
MaySign(push) ==
    Exists(relay) => push.signer \in relay.devices \cup push.next.devices

RelayAuthorize(c) ==
    /\ pc[c] = "putting"
    /\ pc' = [pc EXCEPT ![c] = IF MaySign(call[c]) THEN "authorized" ELSE "refused"]
    /\ UNCHANGED <<relay, generated, keychain, call, waiting, confirmed>>

\* faulty variant: an equal version is taken too
NotOlder(push) == push.next.version >= relay.version

\* MemStore.PutManifest takes a manifest only if its version is greater.
Newer(push) == push.next.version > relay.version

RelayStore(c) ==
    /\ pc[c] = "authorized"
    /\ \/ /\ Newer(call[c])
          /\ relay' = call[c].next
          /\ pc' = [pc EXCEPT ![c] = "stored"]
       \/ /\ ~ Newer(call[c])
          /\ pc' = [pc EXCEPT ![c] = "refused"]
          /\ UNCHANGED relay
    /\ UNCHANGED <<generated, keychain, call, waiting, confirmed>>

-----------------------------------------------------------------------------
(* The answer reaches the caller, or does not.                             *)

Succeeded(c, kind) == pc[c] = "stored" /\ waiting[c] /\ call[c].kind = kind

\* faulty variant: the signer's sub-key is saved, whatever the call was
SavedSigner(c) == {call[c].signer}

\* account_recover saves the new sub-key, and only after a success
Saved(c) == {k \in {call[c].key} : Succeeded(c, "recover")}

Return(c) ==
    /\ pc[c] \in {"stored", "refused"}
    /\ keychain' = keychain \cup Saved(c)
    /\ confirmed' = confirmed \cup {k \in {call[c].key} : Succeeded(c, "revoke")}
    /\ EndCall(c)
    /\ UNCHANGED <<relay, generated>>

\* The caller's 10 s are over, the answer is lost on the way, or the keychain
\* refuses the new sub-key: the sidecar and the relay go on all the same.
GiveUp(c) ==
    /\ Lossy
    /\ pc[c] # "idle"
    /\ waiting[c]
    /\ waiting' = [waiting EXCEPT ![c] = FALSE]
    /\ UNCHANGED <<relay, generated, keychain, pc, call, confirmed>>

\* The push never reaches the relay: the sidecar answers 502.
LoseRequest(c) ==
    /\ Lossy
    /\ pc[c] = "putting"
    /\ EndCall(c)
    /\ UNCHANGED <<relay, generated, keychain, confirmed>>

\* account_forget removes the sub-key from this installation only.
ForgetAccount(k) ==
    /\ k \in keychain
    /\ keychain' = keychain \ {k}
    /\ UNCHANGED <<relay, generated, pc, call, waiting, confirmed>>

-----------------------------------------------------------------------------
RelayStep(c) == RelayAuthorize(c) \/ RelayStore(c)

Next ==
    \/ \E c \in Call :
        \/ PushFirst(c)
        \/ \E k \in SubKey : StartRecover(c, k)
        \/ \E k, caller \in SubKey : StartRevoke(c, k, caller)
        \/ RelayAuthorize(c)
        \/ RelayStore(c)
        \/ Return(c)
        \/ GiveUp(c)
        \/ LoseRequest(c)
    \/ \E k \in SubKey : ForgetAccount(k)

Spec == Init /\ [][Next]_vars

(* net/http runs every handler it has started to its end, and the sidecar  *)
(* always answers: both requests it makes have a timeout.                  *)
FairSpec ==
    /\ Spec
    /\ \A c \in Call : WF_vars(RelayStep(c)) /\ WF_vars(Return(c))

-----------------------------------------------------------------------------
(* Safety.                                                                 *)

(* The manifest the relay holds always leaves a device that can act for    *)
(* the account, although "cannot revoke last device" is checked against a  *)
(* manifest fetched earlier, by calls that may revoke each other's caller. *)
AccountKeepsADevice ==
    /\ Register!WellFormed(relay)
    /\ Known(relay) \subseteq generated

(* A device that was told it had joined, and has saved its sub-key, is     *)
(* never dropped by a concurrent update: the manifest lists it, or lists   *)
(* it as revoked.                                                          *)
NoDeviceDropped ==
    Exists(relay) => keychain \subseteq Known(relay)

(* A revocation that was answered "ok" is in the manifest for good: no     *)
(* push made from an older manifest undoes it.                             *)
ConfirmedRevocationHolds == confirmed \subseteq relay.revoked

(* The signature is checked under one lock and the manifest stored under   *)
(* another. Still, whatever the store is about to accept is signed by a    *)
(* device active in the manifest it replaces or in the new one.            *)
AcceptedIsSigned ==
    \A c \in Call :
        pc[c] = "authorized" /\ Exists(relay) /\ Newer(call[c])
            => call[c].signer \in relay.devices \cup call[c].next.devices

(* A recovery or a revocation is refused only when another update has      *)
(* overtaken it, or when its signer was no longer a device of the account  *)
(* in the manifest it fetched: a device that may act for the account loses *)
(* only to another one.                                                    *)
RefusedOnlyWhenOvertaken ==
    \A c \in Call :
        pc[c] = "refused" /\ call[c].kind # "bootstrap"
            => \/ relay.version > call[c].base.version
               \/ call[c].signer \in call[c].base.revoked

(* Fetch, edit and push by several devices behave as atomic changes of one *)
(* register.                                                               *)
ImplementsRegister == Register!Spec

-----------------------------------------------------------------------------
(* Liveness, for callers that wait and pushes that arrive (Lossy = FALSE). *)

(* A sub-key is added at most once and revoked at most once, so no version *)
(* exceeds this bound.                                                     *)
MaxVersion == 2 * Cardinality(SubKey)

\* a device of the account has pushed an update of version v
Updating(c, v) ==
    /\ pc[c] = "putting"
    /\ Exists(call[c].base)
    /\ call[c].base.version = v
    /\ call[c].signer \in call[c].base.devices \cup {call[c].key}

(* Contending updates never refuse each other for ever: once a push has    *)
(* started from version v, the account moves past v.                       *)
SomeUpdateWins ==
    \A c \in Call, v \in 1..MaxVersion : Updating(c, v) ~> relay.version > v

(* "Concurrent manifest updates [...] Loser fetches latest, rebases,       *)
(* retries": when a device of the account revokes another one, that one is *)
(* revoked in the end. Nothing is asked of a device whose retry would have *)
(* to be refused too: it has been revoked or has forgotten the account     *)
(* meanwhile, or the device that it revokes is the last one left.          *)
LoserRetries ==
    \A c \in Call, s, k \in SubKey, v \in 1..MaxVersion :
        (/\ Updating(c, v) /\ call[c].kind = "revoke"
         /\ call[c].signer = s /\ call[c].key = k /\ s # k)
            ~> \/ k \in relay.revoked \/ relay.devices = {k}
               \/ s \in relay.revoked \/ s \notin keychain

=============================================================================
