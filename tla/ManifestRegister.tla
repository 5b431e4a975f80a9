-------------------------- MODULE ManifestRegister --------------------------
(***************************************************************************)
(* What the account layer promises about the device manifest of one        *)
(* account: a single register that is created once and then changed one    *)
(* device at a time, each change made to the value the previous one left.  *)
(* Nothing is read and written back here, so nothing can be lost:          *)
(* DeviceManifest shows that the fetch-edit-push calls of the sidecar and  *)
(* the relay's two-step handler implement these atomic actions.            *)
(***************************************************************************)
EXTENDS Naturals

CONSTANTS SubKey,   \* the sub-keys that devices of the account may generate
          Creator   \* the sub-key of the device that created the account

ASSUME CreatorAssumption == Creator \in SubKey

VARIABLE manifest   \* the account's current device manifest

-----------------------------------------------------------------------------
(* Version 0 stands for "the relay has no manifest of this account":       *)
(* BuildManifest refuses to build a manifest with that version.            *)
Manifest == [version : Nat, devices : SUBSET SubKey, revoked : SUBSET SubKey]

NoManifest    == [version |-> 0, devices |-> {}, revoked |-> {}]
FirstManifest == [version |-> 1, devices |-> {Creator}, revoked |-> {}]

Exists(m) == m.version > 0

\* every sub-key a manifest lists, active or revoked
Known(m) == m.devices \cup m.revoked

\* recover: all devices kept, one added
WithDevice(m, k) ==
    [version |-> m.version + 1, devices |-> m.devices \cup {k}, revoked |-> m.revoked]

\* revoke: one device moved to the revoked list
WithoutDevice(m, k) ==
    [version |-> m.version + 1, devices |-> m.devices \ {k}, revoked |-> m.revoked \cup {k}]

-----------------------------------------------------------------------------
Init == manifest = NoManifest

Create ==
    /\ ~ Exists(manifest)
    /\ manifest' = FirstManifest

AddDevice(k) ==
    /\ Exists(manifest)
    /\ k \notin Known(manifest)
    /\ manifest' = WithDevice(manifest, k)

RevokeDevice(k) ==
    /\ Exists(manifest)
    /\ k \in manifest.devices
    /\ manifest.devices # {k}
    /\ manifest' = WithoutDevice(manifest, k)

Next ==
    \/ Create
    \/ \E k \in SubKey : AddDevice(k) \/ RevokeDevice(k)

Spec == Init /\ [][Next]_manifest

-----------------------------------------------------------------------------
(* A manifest that exists names at least one device, and no device both    *)
(* active and revoked (the relay checks neither: api/account_handlers.go   *)
(* is the only place that keeps them so).                                  *)
WellFormed(m) ==
    /\ m \in Manifest
    /\ Exists(m) => m.devices # {}
    /\ m.devices \cap m.revoked = {}
    /\ ~ Exists(m) => m = NoManifest

=============================================================================
