---------------------------- MODULE FeatureFlags ----------------------------
(***************************************************************************)
(* The feature flags: the panel with a check box per flag                  *)
(* (src/src/settings/FeatureFlagsPanel.ts), the cache the program asks     *)
(* (feature-flags-service.ts), and the table of the backend they copy.     *)
(***************************************************************************)
EXTENDS Integers, SequencesExt

CONSTANTS Flag,
          MaxToggles   \* bound on the calls under way

ASSUME FlagsAssumption == MaxToggles \in Nat \ {0}

VARIABLES
  ffVisible,
  boxes,         \* the check boxes, once the list was rendered
  flagCache,     \* flag -> what isFeatureEnabled says; TRUE before the first refresh
  flagStored,    \* the table
  toggles,       \* calls under way, with what they carry and whether their box is still there
  flagsCrossed   \* history, for the boxes and for the cache: calls overlapped, or one failed

flagVars == <<ffVisible, boxes, flagCache, flagStored, toggles, flagsCrossed>>
FlagValues == [Flag -> BOOLEAN]
NoBoxes == <<>>
\* Calls that list the flags; and calls that set one and refresh the cache.
ListCall == [step : {"list", "listed"}, here : BOOLEAN, read : FlagValues]
SetCall == [step : {"set", "refresh", "refreshed"}, here : BOOLEAN, flag : Flag, on : BOOLEAN,
            read : FlagValues]

FlagsTypeOK ==
  /\ ffVisible \in BOOLEAN /\ flagsCrossed \in [{"boxes", "cache"} -> BOOLEAN]
  /\ boxes \in FlagValues \cup {NoBoxes} /\ flagCache \in FlagValues /\ flagStored \in FlagValues
  /\ toggles \in Seq(ListCall \cup SetCall)

FlagsInit ==
  /\ ffVisible = FALSE /\ boxes = NoBoxes
  /\ flagStored \in FlagValues /\ flagCache = [f \in Flag |-> TRUE]
  /\ toggles = <<>> /\ flagsCrossed = [w \in {"boxes", "cache"} |-> FALSE]

\* toggleFeatureFlagsPanel, from the menu or the panel's own button.
ToggleFlagsPanel ==
  /\ ffVisible' = ~ffVisible
  /\ IF ffVisible THEN UNCHANGED <<toggles, flagsCrossed>>
     ELSE /\ Len(toggles) < MaxToggles   \* bound
          /\ toggles' = Append(toggles, [step |-> "list", here |-> TRUE, read |-> flagStored])
          /\ flagsCrossed' = [flagsCrossed EXCEPT !["boxes"] = toggles # <<>>]
  /\ UNCHANGED <<boxes, flagCache, flagStored>>

\* A box is changed: the browser flips it, the handler stores what it shows.
ChangeBox(f) ==
  /\ ffVisible /\ boxes # NoBoxes /\ Len(toggles) < MaxToggles   \* bound
  /\ boxes' = [boxes EXCEPT ![f] = ~@]
  /\ toggles' = Append(toggles, [step |-> "set", here |-> TRUE, flag |-> f, on |-> ~boxes[f],
                                 read |-> flagStored])
  /\ flagsCrossed' = [flagsCrossed EXCEPT !["boxes"] = @ \/ toggles # <<>>,
                                          !["cache"] = @ \/ toggles # <<>>]
  /\ UNCHANGED <<ffVisible, flagCache, flagStored>>

\* The backend carries out a call: it reads the table, or sets a flag.
FlagsRead(i) ==
  /\ toggles[i].step \in {"list", "refresh"}
  /\ toggles' = [toggles EXCEPT ![i].read = flagStored,
                   ![i].step = IF @ = "list" THEN "listed" ELSE "refreshed"]
  /\ UNCHANGED <<ffVisible, boxes, flagCache, flagStored, flagsCrossed>>

FlagSet(i) ==
  /\ toggles[i].step = "set"
  /\ flagStored' = [flagStored EXCEPT ![toggles[i].flag] = toggles[i].on]
  /\ toggles' = [toggles EXCEPT ![i].step = "refresh"]
  /\ UNCHANGED <<ffVisible, boxes, flagCache, flagsCrossed>>

\* renderFlags: new boxes take the place of those that calls still under way will put right.
FlagsListed(i) ==
  /\ toggles[i].step = "listed"
  /\ boxes' = toggles[i].read
  /\ LET others == RemoveAt(toggles, i)
     IN  toggles' = [j \in DOMAIN others |->
           [others[j] EXCEPT !.here = @ /\ others[j].step \in {"list", "listed"}]]
  /\ UNCHANGED <<ffVisible, flagCache, flagStored, flagsCrossed>>

\* refreshFlagCache: the cache is emptied and filled.
CacheRefreshed(i) ==
  /\ toggles[i].step = "refreshed"
  /\ flagCache' = toggles[i].read
  /\ toggles' = RemoveAt(toggles, i)
  /\ UNCHANGED <<ffVisible, boxes, flagStored, flagsCrossed>>

\* faulty variant: the box stays as it was clicked.
NotReverted(t) == boxes

Reverted(t) ==
  IF t.here /\ boxes # NoBoxes THEN [boxes EXCEPT ![t.flag] = ~t.on] ELSE boxes

\* A call fails: the list is replaced by the error; or a box goes back, even when
\* its flag was stored and only the refresh of the cache failed.
FlagCallFails(i) ==
  LET t == toggles[i]
      lists == t.step \in {"list", "listed"}
  IN
  /\ boxes' = IF lists THEN NoBoxes ELSE Reverted(t)
  /\ toggles' = RemoveAt(toggles, i)
  /\ flagsCrossed' = IF lists \/ t.step = "set" THEN flagsCrossed
                     ELSE [w \in {"boxes", "cache"} |-> TRUE]
  /\ UNCHANGED <<ffVisible, flagCache, flagStored>>

FlagsNext ==
  \/ ToggleFlagsPanel \/ \E f \in Flag : ChangeBox(f)
  \/ \E i \in DOMAIN toggles : \/ FlagsRead(i) \/ FlagSet(i) \/ FlagsListed(i)
                               \/ CacheRefreshed(i) \/ FlagCallFails(i)

FlagsSpec == FlagsInit /\ [][FlagsNext]_flagVars

-----------------------------------------------------------------------------
\* FeatureFlagsPanel.ts, feature-flags-service.ts: unless calls overlapped, or one
\* failed after its flag was stored, at rest the boxes show what is stored - also
\* after a call to store was refused - and the cache says what is stored, or TRUE
\* of every flag, as it does as long as it was never filled.
BoxesShowFlags ==
  toggles = <<>> =>
    /\ ~flagsCrossed["boxes"] /\ boxes # NoBoxes => boxes = flagStored
    /\ ~flagsCrossed["cache"] => flagCache \in {flagStored, [f \in Flag |-> TRUE]}
=============================================================================
