------------------------ MODULE DeviceManifest_proofs ------------------------
(***************************************************************************)
(* Proofs about DeviceManifest, for any number of devices and calls, and   *)
(* at the end about the relay that restarts.                               *)
(*                                                                         *)
(* The argument: a call in progress has fetched a manifest whose version   *)
(* is at most the relay's, and if the versions are equal the two manifests *)
(* are the same one (BaseIsOld). PutManifest accepts only a version above  *)
(* the relay's, and the pushed version is the fetched one plus 1, so what  *)
(* is accepted was edited from the very manifest it replaces.              *)
(***************************************************************************)
EXTENDS RelayRestart, TLAPS

\* The store still holds what the call fetched, or something newer.
BaseIsOld(p) ==
    /\ Exists(p.base)
    /\ p.base.version <= relay.version
    /\ p.base.version = relay.version => p.base = relay

RecoverOK(p) ==
    /\ p.key \notin Known(p.base)
    /\ p.key \in generated
    /\ p.signer = p.key
    /\ p.next = Register!WithDevice(p.base, p.key)

RevokeOK(p) ==
    /\ p.key \in p.base.devices
    /\ p.base.devices # {p.key}
    /\ p.signer \in Known(p.base)
    /\ p.next = Register!WithoutDevice(p.base, p.key)

\* an update of the call has been stored: its effect is in the manifest
Effective(p) ==
    /\ p.kind = "recover" => p.key \in Known(relay)
    /\ p.kind = "revoke" => p.key \in relay.revoked

UpdateOK(c) ==
    /\ BaseIsOld(call[c])
    /\ call[c].kind = "recover" => RecoverOK(call[c])
    /\ call[c].kind = "revoke" => RevokeOK(call[c])
    /\ pc[c] = "authorized" /\ call[c].base = relay
           => call[c].signer \in relay.devices \cup call[c].next.devices
    /\ pc[c] = "stored" => Effective(call[c])
    /\ pc[c] = "refused" => \/ relay.version > call[c].base.version
                            \/ call[c].signer \in call[c].base.revoked

CallOK(c) ==
    pc[c] # "idle" => \/ call[c] = Bootstrap
                      \/ call[c].kind \in {"recover", "revoke"} /\ UpdateOK(c)

CallsOK == \A c \in Call : CallOK(c)

KeysOK ==
    /\ Known(relay) \subseteq generated
    /\ keychain \subseteq IF Exists(relay) THEN Known(relay) ELSE {Creator}
    /\ Creator \in generated

IInv ==
    /\ TypeOK
    /\ Register!WellFormed(relay)
    /\ KeysOK
    /\ confirmed \subseteq relay.revoked
    /\ CallsOK

USE DEF Manifest, NoManifest, FirstManifest, Exists, Known,
        Register!Manifest, Register!NoManifest, Register!FirstManifest,
        Register!Exists, Register!Known

-----------------------------------------------------------------------------
(* What the store accepts is an edit of what it holds: an update whose     *)
(* version is above the relay's was made from the relay's own manifest.    *)
LEMMA AcceptedWasCurrent ==
    ASSUME IInv, NEW c \in Call, pc[c] = "authorized", Newer(call[c])
    PROVE  \/ /\ ~ Exists(relay)
              /\ call[c].next = FirstManifest
           \/ /\ Exists(relay)
              /\ call[c].base = relay
              /\ call[c].kind \in {"recover", "revoke"}
              /\ UpdateOK(c)
<1>1. CASE call[c] = Bootstrap
  BY <1>1 DEF Bootstrap, Newer, IInv, TypeOK
<1>2. CASE call[c].kind \in {"recover", "revoke"} /\ UpdateOK(c)
  <2>1. call[c].next.version = call[c].base.version + 1
    BY <1>2 DEF UpdateOK, RecoverOK, RevokeOK, Register!WithDevice, Register!WithoutDevice
  <2>2. call[c].base \in Manifest /\ relay \in Manifest
    BY DEF IInv, TypeOK, Push
  <2> QED
    BY <1>2, <2>1, <2>2 DEF UpdateOK, BaseIsOld, Newer
<1> QED
  BY <1>1, <1>2 DEF IInv, CallsOK, CallOK

(* Each acceptance is one step of the abstract register.                   *)
LEMMA AcceptanceIsRegisterStep ==
    ASSUME IInv, NEW c \in Call, pc[c] = "authorized", Newer(call[c]),
           relay' = call[c].next
    PROVE  Register!Next
<1>1. CASE ~ Exists(relay) /\ call[c].next = FirstManifest
  BY <1>1 DEF Register!Next, Register!Create
<1>2. CASE /\ Exists(relay)
           /\ call[c].base = relay
           /\ call[c].kind \in {"recover", "revoke"}
           /\ UpdateOK(c)
  <2>0. call[c].key \in SubKey
    BY DEF IInv, TypeOK, Push
  <2>1. CASE call[c].kind = "recover"
    <3>1. Register!AddDevice(call[c].key)
      BY <1>2, <2>1 DEF UpdateOK, RecoverOK, Register!AddDevice
    <3> QED
      BY <2>0, <3>1 DEF Register!Next
  <2>2. CASE call[c].kind = "revoke"
    <3>1. Register!RevokeDevice(call[c].key)
      BY <1>2, <2>2 DEF UpdateOK, RevokeOK, Register!RevokeDevice
    <3> QED
      BY <2>0, <3>1 DEF Register!Next
  <2> QED
    BY <1>2, <2>1, <2>2
<1> QED
  BY <1>1, <1>2, AcceptedWasCurrent

(* A step of the register bumps the version, forgets no sub-key and no     *)
(* revocation, and keeps the manifest well formed.                         *)
LEMMA RegisterStep ==
    ASSUME Register!WellFormed(relay), Register!Next
    PROVE  /\ Register!WellFormed(relay')
           /\ Exists(relay')
           /\ relay'.version > relay.version
           /\ Known(relay) \subseteq Known(relay')
           /\ relay.revoked \subseteq relay'.revoked
           /\ ~ Exists(relay) => Known(relay') = {Creator}
<1> USE DEF Register!WellFormed
<1>1. CASE Register!Create
  BY <1>1, ManifestAssumption DEF Register!Create
<1>2. ASSUME NEW k \in SubKey, Register!AddDevice(k)
      PROVE  /\ Register!WellFormed(relay')
             /\ Exists(relay')
             /\ relay'.version > relay.version
             /\ Known(relay) \subseteq Known(relay')
             /\ relay.revoked \subseteq relay'.revoked
             /\ Exists(relay)
  BY <1>2 DEF Register!AddDevice, Register!WithDevice
<1>3. ASSUME NEW k \in SubKey, Register!RevokeDevice(k)
      PROVE  /\ Register!WellFormed(relay')
             /\ Exists(relay')
             /\ relay'.version > relay.version
             /\ Known(relay) \subseteq Known(relay')
             /\ relay.revoked \subseteq relay'.revoked
             /\ Exists(relay)
  BY <1>3 DEF Register!RevokeDevice, Register!WithoutDevice
<1> QED
  BY <1>1, <1>2, <1>3 DEF Register!Next

-----------------------------------------------------------------------------
(* A call that takes no step keeps its part of the invariant, whatever the *)
(* other calls do to the relay.                                            *)
LEMMA CallKept ==
    ASSUME IInv, NEW d \in Call,
           pc'[d] = pc[d], call'[d] = call[d],
           generated \subseteq generated',
           relay' = relay \/ Register!Next
    PROVE  CallOK(d)'
<1>0. CallOK(d) /\ Register!WellFormed(relay)
  BY DEF IInv, CallsOK
<1>1. CASE pc[d] = "idle" \/ call[d] = Bootstrap
  BY <1>1 DEF CallOK, Bootstrap
<1>2. CASE pc[d] # "idle" /\ call[d].kind \in {"recover", "revoke"} /\ UpdateOK(d)
  <2>1. /\ call[d].kind = "recover" => RecoverOK(call[d])'
        /\ call[d].kind = "revoke" => RevokeOK(call[d])'
    BY <1>2 DEF UpdateOK, RecoverOK, RevokeOK, Register!WithDevice, Register!WithoutDevice
  <2>2. CASE relay' = relay
    BY <1>2, <2>1, <2>2 DEF CallOK, UpdateOK, BaseIsOld, Effective
  <2>3. CASE Register!Next
    <3>1. /\ relay'.version > relay.version
          /\ Known(relay) \subseteq Known(relay')
          /\ relay.revoked \subseteq relay'.revoked
      BY <1>0, <2>3, RegisterStep
    <3>2. relay.version \in Nat /\ relay'.version \in Nat /\ call[d].base.version \in Nat
      BY <1>0, <2>3, RegisterStep DEF IInv, TypeOK, Push, Register!WellFormed
    <3>3. call[d].base.version < relay'.version
      BY <1>2, <3>1, <3>2 DEF UpdateOK, BaseIsOld
    <3>4. pc[d] = "stored" => Effective(call[d])'
      BY <1>2, <3>1 DEF UpdateOK, Effective
    <3> QED
      BY <1>2, <2>1, <3>2, <3>3, <3>4 DEF CallOK, UpdateOK, BaseIsOld
  <2> QED
    BY <2>2, <2>3
<1> QED
  BY <1>0, <1>1, <1>2 DEF CallOK
-----------------------------------------------------------------------------
\* What the handlers build from a fetched manifest is a request.
LEMMA PushTypes ==
    ASSUME TypeOK, NEW k \in SubKey, NEW caller \in SubKey
    PROVE  /\ Bootstrap \in Push
           /\ Recovery(k) \in Push
           /\ Revocation(k, caller) \in Push
BY ManifestAssumption
   DEF TypeOK, Push, Bootstrap, Recovery, Revocation,
       Register!WithDevice, Register!WithoutDevice

\* The variables keep their types.
LEMMA TypeStep == TypeOK /\ [Next]_vars => TypeOK'
<1> SUFFICES ASSUME TypeOK, [Next]_vars PROVE TypeOK'
  OBVIOUS
<1> USE DEF TypeOK, Phases
<1>0. Bootstrap \in Push
  BY PushTypes, ManifestAssumption
<1>1. ASSUME NEW c \in Call, NEW push \in Push, BeginPush(c, push),
             generated' \in SUBSET SubKey
      PROVE  TypeOK'
  BY <1>1 DEF BeginPush
<1>2. ASSUME NEW c \in Call, PushFirst(c) PROVE TypeOK'
  BY <1>0, <1>1, <1>2 DEF PushFirst
<1>3. ASSUME NEW c \in Call, NEW k \in SubKey, StartRecover(c, k) PROVE TypeOK'
  BY <1>1, <1>3, PushTypes DEF StartRecover
<1>4. ASSUME NEW c \in Call, NEW k \in SubKey, NEW caller \in SubKey,
             StartRevoke(c, k, caller)
      PROVE  TypeOK'
  BY <1>1, <1>4, PushTypes DEF StartRevoke
<1>5. ASSUME NEW c \in Call, RelayAuthorize(c) PROVE TypeOK'
  BY <1>5 DEF RelayAuthorize
<1>6. ASSUME NEW c \in Call, RelayStore(c) PROVE TypeOK'
  BY <1>6 DEF RelayStore, Push
<1>7. ASSUME NEW c \in Call, Return(c) PROVE TypeOK'
  <2>1. call[c].key \in SubKey
    BY DEF Push
  <2> QED
    BY <1>0, <1>7, <2>1 DEF Return, EndCall, Saved
<1>8. ASSUME NEW c \in Call, GiveUp(c) PROVE TypeOK'
  BY <1>8 DEF GiveUp
<1>9. ASSUME NEW c \in Call, LoseRequest(c) PROVE TypeOK'
  BY <1>0, <1>9 DEF LoseRequest, EndCall
<1>10. ASSUME NEW k \in SubKey, ForgetAccount(k) PROVE TypeOK'
  BY <1>10 DEF ForgetAccount
<1>11. CASE UNCHANGED vars
  BY <1>11 DEF vars
<1> QED
  BY <1>2, <1>3, <1>4, <1>5, <1>6, <1>7, <1>8, <1>9, <1>10, <1>11 DEF Next

\* The types hold at the start.
LEMMA TypeInit == Init => TypeOK
BY PushTypes, ManifestAssumption
   DEF Init, TypeOK, Phases, Push, Bootstrap

\* Every variable has its type, for any number of sub-keys and calls.
THEOREM TypeCorrect == Spec => []TypeOK
<1> QED
  BY TypeInit, TypeStep, PTL DEF Spec

-----------------------------------------------------------------------------
\* IInv holds at the start.
LEMMA InvariantInit == Init => IInv
BY TypeInit, ManifestAssumption
   DEF Init, IInv, Register!WellFormed, KeysOK, CallsOK, CallOK

(* IInv is inductive: each step of one call keeps the call's own part of   *)
(* it, and by CallKept that of every other call.                           *)
LEMMA InvariantStep == IInv /\ [Next]_vars => IInv'
<1> SUFFICES ASSUME IInv, [Next]_vars PROVE IInv'
  OBVIOUS
<1>0. TypeOK /\ TypeOK' /\ Register!WellFormed(relay) /\ KeysOK /\ CallsOK
  BY TypeStep DEF IInv
<1> USE <1>0
<1>1. ASSUME NEW c \in Call, NEW push, BeginPush(c, push),
             push.kind # "bootstrap" => push.kind \in {"recover", "revoke"},
             generated \subseteq generated',
             push = Bootstrap \/ (push.kind \in {"recover", "revoke"} /\ UpdateOK(c)')
      PROVE  IInv'
  <2>1. call'[c] = push /\ pc'[c] = "putting"
    BY <1>1 DEF BeginPush, TypeOK
  <2>2. CallOK(c)'
    BY <1>1, <2>1 DEF CallOK
  <2>3. ASSUME NEW d \in Call, d # c PROVE CallOK(d)'
    BY <1>1, <2>3, CallKept DEF BeginPush, TypeOK
  <2> QED
    BY <1>1, <2>2, <2>3 DEF IInv, BeginPush, KeysOK, CallsOK, Register!WellFormed
<1>2. ASSUME NEW c \in Call, PushFirst(c) PROVE IInv'
  BY <1>1, <1>2 DEF PushFirst, Bootstrap
<1>3. ASSUME NEW c \in Call, NEW k \in SubKey, StartRecover(c, k) PROVE IInv'
  <2>1. call'[c] = Recovery(k) /\ pc'[c] = "putting" /\ relay' = relay
    BY <1>3 DEF StartRecover, BeginPush, TypeOK
  <2>2. RecoverOK(call[c])'
    BY <1>3, <2>1 DEF StartRecover, Recovery, RecoverOK, KeysOK,
                      Register!WithDevice
  <2>3. UpdateOK(c)'
    BY <1>3, <2>1, <2>2 DEF StartRecover, Recovery, UpdateOK, BaseIsOld, TypeOK
  <2> QED
    BY <1>1, <1>3, <2>3 DEF StartRecover, Recovery
<1>4. ASSUME NEW c \in Call, NEW k \in SubKey, NEW caller \in SubKey,
             StartRevoke(c, k, caller)
      PROVE  IInv'
  <2>1. call'[c] = Revocation(k, caller) /\ pc'[c] = "putting" /\ relay' = relay
    BY <1>4 DEF StartRevoke, BeginPush, TypeOK
  <2>2. Exists(relay)
    BY <1>4 DEF StartRevoke, Register!WellFormed
  <2>3. RevokeOK(call[c])'
    BY <1>4, <2>1, <2>2 DEF StartRevoke, Revocation, RevokeOK, KeysOK,
                            Register!WithoutDevice
  <2>4. UpdateOK(c)'
    BY <2>1, <2>2, <2>3 DEF Revocation, UpdateOK, BaseIsOld, TypeOK
  <2> QED
    BY <1>1, <1>4, <2>4 DEF StartRevoke, Revocation
<1>5. ASSUME NEW c \in Call, RelayAuthorize(c) PROVE IInv'
  <2>1. ASSUME NEW d \in Call, d # c PROVE CallOK(d)'
    BY <1>5, <2>1, CallKept DEF RelayAuthorize, TypeOK
  <2>2. CASE call[c] = Bootstrap
    BY <1>5, <2>1, <2>2 DEF RelayAuthorize, IInv, KeysOK, CallsOK, CallOK, Bootstrap, Register!WellFormed
  <2>3. CASE call[c].kind \in {"recover", "revoke"} /\ UpdateOK(c)
    <3>1. MaySign(call[c]) /\ call[c].base = relay
            => call[c].signer \in relay.devices \cup call[c].next.devices
      BY <2>3 DEF MaySign, UpdateOK, BaseIsOld
    <3>2. ~ MaySign(call[c]) /\ call[c].base = relay
            => call[c].signer \in call[c].base.revoked
      BY <2>3 DEF MaySign, UpdateOK, RecoverOK, RevokeOK, Register!WithDevice
    <3>3. call[c].base # relay => relay.version > call[c].base.version
      <4>1. relay.version \in Nat /\ call[c].base.version \in Nat
        BY DEF TypeOK, Push
      <4> QED
        BY <2>3, <4>1 DEF UpdateOK, BaseIsOld
    <3>4. /\ relay' = relay /\ call' = call /\ generated' = generated
          /\ pc'[c] = IF MaySign(call[c]) THEN "authorized" ELSE "refused"
      BY <1>5 DEF RelayAuthorize, TypeOK
    <3>5. /\ BaseIsOld(call[c])'
          /\ call[c].kind = "recover" => RecoverOK(call[c])'
          /\ call[c].kind = "revoke" => RevokeOK(call[c])'
      BY <2>3, <3>4 DEF UpdateOK, BaseIsOld, RecoverOK, RevokeOK
    <3>6. UpdateOK(c)'
      BY <3>1, <3>2, <3>3, <3>4, <3>5 DEF UpdateOK
    <3> QED
      BY <1>5, <2>1, <2>3, <3>6
         DEF RelayAuthorize, IInv, KeysOK, CallsOK, CallOK, Register!WellFormed
  <2> QED
    BY <1>5, <2>2, <2>3 DEF CallsOK, CallOK, RelayAuthorize
<1>6. ASSUME NEW c \in Call, RelayStore(c) PROVE IInv'
  <2>0. relay' = relay \/ Register!Next
    BY <1>6, AcceptanceIsRegisterStep DEF RelayStore
  <2>1. ASSUME NEW d \in Call, d # c PROVE CallOK(d)'
    BY <1>6, <2>0, <2>1, CallKept DEF RelayStore, TypeOK
  <2>2. CASE Newer(call[c])
    <3>1. relay' = call[c].next /\ pc'[c] = "stored" /\ call' = call /\ pc[c] = "authorized"
      BY <1>6, <2>2 DEF RelayStore, TypeOK
    <3>2. Register!Next
      BY <2>2, <3>1, AcceptanceIsRegisterStep
    <3>3. CallOK(c)'
      <4>1. CASE ~ Exists(relay) /\ call[c].next = FirstManifest
        <5>1. call[c] = Bootstrap
          BY <3>1, <4>1 DEF CallsOK, CallOK, UpdateOK, BaseIsOld, TypeOK, Push
        <5> QED
          BY <3>1, <5>1 DEF CallOK, Bootstrap
      <4>2. CASE /\ Exists(relay) /\ call[c].base = relay
                 /\ call[c].kind \in {"recover", "revoke"} /\ UpdateOK(c)
        <5>1. /\ call[c].kind = "recover" => RecoverOK(call[c])'
              /\ call[c].kind = "revoke" => RevokeOK(call[c])'
          BY <1>6, <3>1, <4>2 DEF UpdateOK, RecoverOK, RevokeOK, RelayStore
        <5>2. relay'.version > relay.version /\ relay'.version \in Nat /\ relay.version \in Nat
          BY <3>2, RegisterStep DEF TypeOK
        <5>3. BaseIsOld(call[c])'
          BY <3>1, <4>2, <5>2 DEF BaseIsOld
        <5>4. Effective(call[c])'
          BY <3>1, <4>2 DEF UpdateOK, RecoverOK, RevokeOK, Effective,
                            Register!WithDevice, Register!WithoutDevice
        <5> QED
          BY <3>1, <4>2, <5>1, <5>3, <5>4 DEF CallOK, UpdateOK
      <4> QED
        BY <2>2, <3>1, <4>1, <4>2, AcceptedWasCurrent
    <3>4. Known(relay') \subseteq generated
      <4>1. CASE ~ Exists(relay)
        BY <3>2, <4>1, RegisterStep DEF KeysOK
      <4>2. CASE Exists(relay)
        <5>1. /\ call[c].base = relay
              /\ RecoverOK(call[c]) \/ RevokeOK(call[c])
          BY <2>2, <3>1, <4>2, AcceptedWasCurrent DEF UpdateOK
        <5> QED
          BY <3>1, <5>1 DEF RecoverOK, RevokeOK, KeysOK,
                            Register!WithDevice, Register!WithoutDevice
      <4> QED
        BY <4>1, <4>2
    <3>5. KeysOK'
      BY <1>6, <3>2, <3>4, RegisterStep DEF KeysOK, RelayStore
    <3>6. (confirmed \subseteq relay.revoked)'
      BY <1>6, <3>2, RegisterStep DEF IInv, RelayStore
    <3> QED
      BY <2>1, <3>2, <3>3, <3>5, <3>6, RegisterStep DEF IInv, CallsOK
  <2>3. CASE ~ Newer(call[c])
    <3>1. relay' = relay /\ pc'[c] = "refused" /\ call' = call /\ pc[c] = "authorized"
      BY <1>6, <2>3 DEF RelayStore, TypeOK
    <3>2. ASSUME call[c] = Bootstrap PROVE CallOK(c)'
      BY <3>1, <3>2 DEF CallOK, Bootstrap
    <3>3. ASSUME call[c].kind \in {"recover", "revoke"}, UpdateOK(c)
          PROVE  CallOK(c)'
      <4>1. /\ BaseIsOld(call[c])'
            /\ call[c].kind = "recover" => RecoverOK(call[c])'
            /\ call[c].kind = "revoke" => RevokeOK(call[c])'
        BY <1>6, <3>1, <3>3 DEF UpdateOK, BaseIsOld, RecoverOK, RevokeOK, RelayStore
      <4>2. relay.version > call[c].base.version
        <5>1. call[c].next.version = call[c].base.version + 1
          BY <3>3 DEF UpdateOK, RecoverOK, RevokeOK, Register!WithDevice, Register!WithoutDevice
        <5>2. relay.version \in Nat /\ call[c].base.version \in Nat
          BY DEF TypeOK, Push
        <5>3. ~ (call[c].base.version + 1 > relay.version)
          BY <2>3, <5>1 DEF Newer
        <5> QED
          BY <5>2, <5>3
      <4> QED
        BY <3>1, <3>3, <4>1, <4>2 DEF CallOK, UpdateOK
    <3>4. CallOK(c)'
      BY <3>1, <3>2, <3>3 DEF CallsOK, CallOK
    <3> QED
      BY <1>6, <2>1, <3>1, <3>4
         DEF RelayStore, IInv, KeysOK, CallsOK, Register!WellFormed
  <2> QED
    BY <2>2, <2>3
<1>7. ASSUME NEW c \in Call, Return(c) PROVE IInv'
  <2>0. relay' = relay /\ generated' = generated /\ pc'[c] = "idle"
    BY <1>7 DEF Return, EndCall, TypeOK
  <2>1. ASSUME NEW d \in Call, d # c PROVE CallOK(d)'
    BY <1>7, <2>1, CallKept DEF Return, EndCall, TypeOK
  <2>2. CallOK(c)'
    BY <2>0 DEF CallOK
  <2>3. ASSUME NEW kind \in {"recover", "revoke"}, Succeeded(c, kind)
        PROVE  Exists(relay) /\ Effective(call[c])
    <3>1. UpdateOK(c) /\ pc[c] = "stored"
      BY <2>3 DEF Succeeded, CallsOK, CallOK, Bootstrap
    <3>2. relay.version \in Nat /\ call[c].base.version \in Nat
      BY DEF TypeOK, Push
    <3> QED
      BY <3>1, <3>2 DEF UpdateOK, BaseIsOld
  <2>4. KeysOK'
    BY <1>7, <2>0, <2>3 DEF Return, Saved, KeysOK, Succeeded, Effective
  <2>5. (confirmed \subseteq relay.revoked)'
    BY <1>7, <2>0, <2>3 DEF Return, Succeeded, Effective, IInv
  <2> QED
    BY <2>0, <2>1, <2>2, <2>4, <2>5 DEF IInv, CallsOK, Register!WellFormed
<1>8. ASSUME NEW c \in Call, GiveUp(c) PROVE IInv'
  <2>1. ASSUME NEW d \in Call PROVE CallOK(d)'
    BY <1>8, CallKept DEF GiveUp
  <2> QED
    BY <1>8, <2>1 DEF GiveUp, IInv, KeysOK, CallsOK, Register!WellFormed
<1>9. ASSUME NEW c \in Call, LoseRequest(c) PROVE IInv'
  <2>1. ASSUME NEW d \in Call, d # c PROVE CallOK(d)'
    BY <1>9, <2>1, CallKept DEF LoseRequest, EndCall, TypeOK
  <2>2. CallOK(c)'
    BY <1>9 DEF LoseRequest, EndCall, CallOK, TypeOK
  <2> QED
    BY <1>9, <2>1, <2>2 DEF LoseRequest, IInv, KeysOK, CallsOK, Register!WellFormed
<1>10. ASSUME NEW k \in SubKey, ForgetAccount(k) PROVE IInv'
  <2>1. ASSUME NEW d \in Call PROVE CallOK(d)'
    BY <1>10, CallKept DEF ForgetAccount
  <2> QED
    BY <1>10, <2>1 DEF ForgetAccount, IInv, KeysOK, CallsOK, Register!WellFormed
<1>11. CASE UNCHANGED vars
  <2>1. ASSUME NEW d \in Call PROVE CallOK(d)'
    BY <1>11, CallKept DEF vars
  <2> QED
    BY <1>11, <2>1 DEF vars, IInv, KeysOK, CallsOK, Register!WellFormed
<1> QED
  BY <1>2, <1>3, <1>4, <1>5, <1>6, <1>7, <1>8, <1>9, <1>10, <1>11 DEF Next


\* IInv in every reachable state: a call under way (account_handlers.go) has fetched
\* the manifest the relay holds, or an older one, and every manifest is well formed.
THEOREM Invariance == Spec => []IInv
<1> QED
  BY InvariantInit, InvariantStep, PTL DEF Spec

-----------------------------------------------------------------------------
(* The account always keeps a device, and the manifest names only sub-keys *)
(* that were generated.                                                    *)
THEOREM KeepsADevice == Spec => []AccountKeepsADevice
<1>1. IInv => AccountKeepsADevice
  BY DEF IInv, KeysOK, AccountKeepsADevice
<1> QED
  BY <1>1, Invariance, PTL

(* No update drops a device that has saved its sub-key.                    *)
THEOREM DropsNoDevice == Spec => []NoDeviceDropped
<1>1. IInv => NoDeviceDropped
  BY DEF IInv, KeysOK, NoDeviceDropped
<1> QED
  BY <1>1, Invariance, PTL

(* No update undoes a revocation that was confirmed.                       *)
THEOREM RevocationIsFinal == Spec => []ConfirmedRevocationHolds
<1>1. IInv => ConfirmedRevocationHolds
  BY DEF IInv, ConfirmedRevocationHolds
<1> QED
  BY <1>1, Invariance, PTL

(* The signature checked before the store's lock is taken still counts for *)
(* the manifest that is replaced under it.                                 *)
THEOREM SignatureStillCounts == Spec => []AcceptedIsSigned
<1>1. IInv => AcceptedIsSigned
  <2> SUFFICES ASSUME IInv, NEW c \in Call,
                      pc[c] = "authorized", Exists(relay), Newer(call[c])
               PROVE  call[c].signer \in relay.devices \cup call[c].next.devices
    BY DEF AcceptedIsSigned
  <2>1. call[c].base = relay /\ UpdateOK(c)
    BY AcceptedWasCurrent
  <2> QED
    BY <2>1 DEF UpdateOK
<1> QED
  BY <1>1, Invariance, PTL

(* A device that may act for the account loses only to another update.     *)
THEOREM RefusedWhenOvertaken == Spec => []RefusedOnlyWhenOvertaken
<1>1. IInv => RefusedOnlyWhenOvertaken
  BY DEF IInv, CallsOK, CallOK, UpdateOK, Bootstrap, RefusedOnlyWhenOvertaken
<1> QED
  BY <1>1, Invariance, PTL

(* The calls of any number of devices implement the atomic register.       *)
THEOREM Refinement == Spec => ImplementsRegister
<1>1. Init => Register!Init
  BY DEF Init, Register!Init
<1>2. IInv /\ [Next]_vars => [Register!Next]_relay
  <2> SUFFICES ASSUME IInv, [Next]_vars, relay' # relay
               PROVE  Register!Next
    OBVIOUS
  <2>1. PICK c \in Call : RelayStore(c)
    BY DEF Next, vars, PushFirst, StartRecover, StartRevoke, BeginPush,
           RelayAuthorize, Return, GiveUp, LoseRequest, ForgetAccount
  <2> QED
    BY <2>1, AcceptanceIsRegisterStep DEF RelayStore
<1> QED
  BY <1>1, <1>2, Invariance, PTL DEF Spec, ImplementsRegister, Register!Spec

-----------------------------------------------------------------------------
(* A relay that restarts forgets the manifest, and with it what IInv says  *)
(* of fetched manifests. What is left is about each push on its own: it    *)
(* was made from a well formed manifest and makes a well formed one.       *)
Sound(p) ==
    /\ Register!WellFormed(p.next)
    /\ Known(p.next) \subseteq generated

RestartInv ==
    /\ TypeOK
    /\ AccountKeepsADevice
    /\ Creator \in generated
    /\ \A c \in Call : Sound(call[c])

\* The push of manifest v1 is sound.
LEMMA FirstIsSound == Creator \in generated => Sound(Bootstrap)
<1> SUFFICES ASSUME Creator \in generated PROVE Sound(Bootstrap)
  OBVIOUS
<1>1. Bootstrap.next = FirstManifest
  BY DEF Bootstrap
<1>2. FirstManifest \in Manifest
  BY ManifestAssumption
<1>3. FirstManifest.version = 1 /\ FirstManifest.devices = {Creator} /\ FirstManifest.revoked = {}
  OBVIOUS
<1> HIDE DEF FirstManifest, Register!FirstManifest
<1> QED
  BY <1>1, <1>2, <1>3 DEF Sound, Register!WellFormed

\* So are the edits of a sound manifest.
LEMMA PushesAreSound ==
    ASSUME RestartInv
    PROVE  /\ Sound(Bootstrap)
           /\ \A k \in SubKey \ generated :
                /\ Register!WellFormed(Recovery(k).next)
                /\ Known(Recovery(k).next) \subseteq generated \cup {k}
           /\ \A k \in relay.devices, caller \in SubKey :
                relay.devices # {k} => Sound(Revocation(k, caller))
<1> USE DEF RestartInv, TypeOK, AccountKeepsADevice, Register!WellFormed
<1>1. Sound(Bootstrap)
  BY FirstIsSound
<1>2. ASSUME NEW k \in SubKey \ generated
      PROVE  /\ Register!WellFormed(Recovery(k).next)
             /\ Known(Recovery(k).next) \subseteq generated \cup {k}
  BY DEF Recovery, Register!WithDevice
<1>3. ASSUME NEW k \in relay.devices, NEW caller \in SubKey, relay.devices # {k}
      PROVE  Sound(Revocation(k, caller))
  BY <1>3 DEF Sound, Revocation, Register!WithoutDevice
<1> QED
  BY <1>1, <1>2, <1>3

\* A step that changes neither manifest nor pushes, or ends a call, disturbs nothing.
LEMMA RestartKept ==
    ASSUME RestartInv, TypeOK', generated \subseteq generated',
           relay' \in {relay, NoManifest} \cup {call[c].next : c \in Call},
           \A c \in Call : call'[c] = call[c] \/ call'[c] = Bootstrap \/ Sound(call[c])'
    PROVE  RestartInv'
<1>1. AccountKeepsADevice'
  <2>1. CASE relay' \in {relay, NoManifest}
    BY <2>1 DEF RestartInv, AccountKeepsADevice, Register!WellFormed
  <2>2. CASE relay' \in {call[c].next : c \in Call}
    BY <2>2 DEF RestartInv, AccountKeepsADevice, Sound
  <2> QED
    BY <2>1, <2>2
<1>2. \A c \in Call : Sound(call[c])'
  BY PushesAreSound DEF RestartInv, Sound
<1> QED
  BY <1>1, <1>2 DEF RestartInv

\* Each step of the relay, of the sidecars and of the callers, and a restart.
LEMMA RestartStep == RestartInv /\ [RestartNext]_vars => RestartInv'
<1> SUFFICES ASSUME RestartInv, [RestartNext]_vars PROVE RestartInv'
  OBVIOUS
<1>0. TypeOK'
  <2>1. CASE [Next]_vars
    BY <2>1, TypeStep DEF RestartInv
  <2>2. CASE Restart
    BY <2>2 DEF Restart, RestartInv, TypeOK, Phases
  <2> QED
    BY <2>1, <2>2 DEF RestartNext
<1>1. call \in [Call -> Push]
  BY DEF RestartInv, TypeOK
<1>2. ASSUME NEW c \in Call, PushFirst(c) PROVE RestartInv'
  BY <1>0, <1>1, <1>2, RestartKept DEF PushFirst, BeginPush
<1>3. ASSUME NEW c \in Call, NEW k \in SubKey, StartRecover(c, k) PROVE RestartInv'
  <2>1. /\ relay' = relay /\ call' = [call EXCEPT ![c] = Recovery(k)]
        /\ k \notin generated /\ generated' = generated \cup {k}
    BY <1>3 DEF StartRecover, BeginPush
  <2>2. Sound(call[c])'
    BY <1>1, <2>1, PushesAreSound DEF Sound
  <2> QED
    BY <1>0, <1>1, <2>1, <2>2, RestartKept
<1>4. ASSUME NEW c \in Call, NEW k \in SubKey, NEW caller \in SubKey,
             StartRevoke(c, k, caller)
      PROVE  RestartInv'
  <2>1. /\ relay' = relay /\ call' = [call EXCEPT ![c] = Revocation(k, caller)]
        /\ k \in relay.devices /\ relay.devices # {k} /\ generated' = generated
    BY <1>4 DEF StartRevoke, BeginPush
  <2>2. Sound(call[c])'
    BY <1>1, <2>1, PushesAreSound DEF Sound
  <2> QED
    BY <1>0, <1>1, <2>1, <2>2, RestartKept
<1>5. ASSUME NEW c \in Call, RelayStore(c) PROVE RestartInv'
  BY <1>0, <1>5, RestartKept DEF RelayStore
<1>6. ASSUME NEW c \in Call, Return(c) \/ LoseRequest(c) PROVE RestartInv'
  BY <1>0, <1>1, <1>6, RestartKept DEF Return, LoseRequest, EndCall
<1>7. ASSUME NEW c \in Call, RelayAuthorize(c) \/ GiveUp(c) PROVE RestartInv'
  BY <1>0, <1>7, RestartKept DEF RelayAuthorize, GiveUp
<1>8. CASE Restart \/ (\E k \in SubKey : ForgetAccount(k)) \/ UNCHANGED vars
  BY <1>0, <1>8, RestartKept DEF Restart, ForgetAccount, vars
<1> QED
  BY <1>2, <1>3, <1>4, <1>5, <1>6, <1>7, <1>8 DEF RestartNext, Next

(* relay/store.go keeps everything in memory. However often the relay is   *)
(* restarted, and whatever pushes were under way, the manifest it holds    *)
(* names a device, none both active and revoked, and only sub-keys that    *)
(* were generated; that a revocation holds is lost (RevokedStaysOut).      *)
THEOREM RestartsKeepADevice == RestartSpec => [](TypeOK /\ AccountKeepsADevice)
<1>1. Init => RestartInv
  <2> SUFFICES ASSUME Init PROVE RestartInv
    OBVIOUS
  <2>1. TypeOK /\ Creator \in generated
    BY TypeInit DEF Init
  <2>2. AccountKeepsADevice
    BY <2>1 DEF Init, TypeOK, AccountKeepsADevice, Register!WellFormed
  <2>3. \A c \in Call : Sound(call[c])
    BY <2>1, FirstIsSound DEF Init
  <2> QED
    BY <2>1, <2>2, <2>3 DEF RestartInv
<1>2. RestartInv => TypeOK /\ AccountKeepsADevice
  BY DEF RestartInv
<1> QED
  BY <1>1, <1>2, RestartStep, PTL DEF RestartSpec

=============================================================================
