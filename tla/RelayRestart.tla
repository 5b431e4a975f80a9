---------------------------- MODULE RelayRestart ----------------------------
(***************************************************************************)
(* The relay of DeviceManifest with its process restarted now and then.    *)
(* MemStore keeps everything in memory, so a restart forgets the manifest, *)
(* its version and its list of revoked devices; the handlers that were     *)
(* running die with their connections, and their callers get an error.     *)
(***************************************************************************)
EXTENDS DeviceManifest

Restart ==
    /\ Exists(relay)
    /\ relay' = NoManifest
    /\ pc' = [c \in Call |-> IF pc[c] = "authorized" THEN "refused" ELSE pc[c]]
    /\ UNCHANGED <<generated, keychain, call, waiting, confirmed>>

RestartNext == Next \/ Restart

RestartSpec == Init /\ [][RestartNext]_vars

-----------------------------------------------------------------------------
(* "Revoked device attempts to connect: Relay returns 401 revoked": a      *)
(* device whose revocation was answered "ok" is not an active device of    *)
(* any manifest the relay holds later.                                     *)
RevokedStaysOut == confirmed \cap relay.devices = {}

=============================================================================
