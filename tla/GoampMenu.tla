------------------------------ MODULE GoampMenu -----------------------------
(***************************************************************************)
(* The player's own context menu (src/src/webamp/goamp-menu.ts) and the    *)
(* two switches it holds that live elsewhere as well: seeding of           *)
(* downloaded tracks (a preference in the backend, of which the menu keeps *)
(* a copy) and the window kept on top (window-layer.ts: a preference in    *)
(* localStorage, and the window itself). The calls that carry them out are *)
(* not awaited and may take effect in another order.                       *)
(***************************************************************************)
EXTENDS Integers, SequencesExt

CONSTANT MaxOrders   \* bound on the calls under way

ASSUME MenuAssumption == MaxOrders \in Nat \ {0}

VARIABLES
  menuOpen, ticked, \* the menu, and whether it was built with On-Top ticked
  seedEnabled,    \* the menu's copy of the preference
  seedStored,     \* the backend's
  consent,        \* history: did the user agree to seed, and not switch it off since?
  onTop,          \* goamp_on_top
  onTopMigrated,  \* the keys older builds left behind say On-Top
  windowOnTop,    \* what the window does
  orders,         \* calls under way
  seedCrossed, topCrossed \* history: calls about it overlapped or failed

menuVars == <<menuOpen, ticked, seedEnabled, seedStored, consent, onTop, onTopMigrated, windowOnTop,
              orders, seedCrossed, topCrossed>>
seedVars == <<seedEnabled, seedStored, consent>>
topVars == <<onTop, onTopMigrated, windowOnTop>>
OrderKinds == {"read", "answer", "seed", "top", "bottom"}

MenuTypeOK ==
  /\ {menuOpen, ticked, seedEnabled, seedStored, consent, onTopMigrated, windowOnTop, seedCrossed,
      topCrossed} \subseteq BOOLEAN
  /\ onTop \in {"", "0", "1"}
  /\ orders \in Seq([kind : OrderKinds, on : BOOLEAN])

IsOnTop == onTop = "1" \/ (onTop = "" /\ onTopMigrated)
Order(kind, on) == [kind |-> kind, on |-> on]
Ordered(kinds) == \E i \in DOMAIN orders : orders[i].kind \in kinds

\* initGoampMenu asks for the preference, applyOnTop restores the window.
MenuInit ==
  /\ menuOpen = FALSE /\ ticked = FALSE
  /\ seedEnabled = FALSE /\ seedStored \in BOOLEAN /\ consent = seedStored
  /\ onTop \in {"", "0", "1"} /\ onTopMigrated \in BOOLEAN /\ windowOnTop = FALSE
  /\ orders = <<Order("read", FALSE), Order("top", IsOnTop)>>
  /\ seedCrossed = FALSE /\ topCrossed = FALSE

OpenMenu ==
  /\ menuOpen' = TRUE /\ ticked' = IsOnTop
  /\ UNCHANGED <<seedVars, topVars, orders, seedCrossed, topCrossed>>

CloseMenu ==
  /\ menuOpen /\ menuOpen' = FALSE
  /\ UNCHANGED <<ticked, seedVars, topVars, orders, seedCrossed, topCrossed>>

\* faulty variant: nobody is asked.
NobodyAsked(agrees) == TRUE

MayToggleSeed(agrees) == seedEnabled \/ agrees

\* Switching seeding on takes the user's agreement; the dialog holds up everything else.
ClickSeed(agrees) ==
  /\ menuOpen /\ menuOpen' = FALSE /\ Len(orders) < MaxOrders
  /\ IF MayToggleSeed(agrees)
     THEN /\ seedEnabled' = ~seedEnabled /\ consent' = (~seedEnabled /\ agrees)
          /\ orders' = Append(orders, Order("seed", seedEnabled'))
          /\ seedCrossed' = Ordered({"read", "answer", "seed"})
     ELSE UNCHANGED <<seedEnabled, consent, orders, seedCrossed>>
  /\ UNCHANGED <<ticked, seedStored, topVars, topCrossed>>

\* faulty variant: the window is not told.
StoreOnTop(on, more) ==
  /\ onTop' = IF on THEN "1" ELSE "0"
  /\ orders' = orders \o more
  /\ topCrossed' = Ordered({"top"})

\* setOnTop, and the calls made after it.
SetOnTop(on, more) ==
  /\ onTop' = IF on THEN "1" ELSE "0"
  /\ orders' = orders \o <<Order("top", on)>> \o more
  /\ topCrossed' = Ordered({"top"})

ClickOnTop ==
  /\ menuOpen /\ menuOpen' = FALSE /\ Len(orders) < MaxOrders
  /\ SetOnTop(~ticked, <<>>)
  /\ UNCHANGED <<ticked, seedVars, onTopMigrated, windowOnTop, seedCrossed>>

\* sendToBack unpins the window first.
ClickToBottom ==
  /\ menuOpen /\ menuOpen' = FALSE /\ Len(orders) + 1 < MaxOrders
  /\ IF IsOnTop
     THEN SetOnTop(FALSE, <<Order("bottom", FALSE)>>)
     ELSE orders' = Append(orders, Order("bottom", FALSE)) /\ UNCHANGED <<onTop, topCrossed>>
  /\ UNCHANGED <<ticked, seedVars, onTopMigrated, windowOnTop, seedCrossed>>

\* The backend reads or writes the preference, or the window is told; or a call
\* fails, which nobody notices.
OrderTaken(i) ==
  LET o == orders[i]
  IN  /\ orders' = IF o.kind = "read" THEN [orders EXCEPT ![i] = Order("answer", seedStored)]
                   ELSE RemoveAt(orders, i)
      /\ seedEnabled' = IF o.kind = "answer" THEN o.on ELSE seedEnabled
      /\ seedStored' = IF o.kind = "seed" THEN o.on ELSE seedStored
      /\ windowOnTop' = IF o.kind = "top" THEN o.on ELSE windowOnTop
      /\ UNCHANGED <<menuOpen, ticked, consent, onTop, onTopMigrated, seedCrossed, topCrossed>>

OrderFails(i) ==
  /\ orders' = RemoveAt(orders, i)
  /\ seedCrossed' = (seedCrossed \/ orders[i].kind \in {"read", "answer", "seed"})
  /\ topCrossed' = (topCrossed \/ orders[i].kind = "top")
  /\ UNCHANGED <<menuOpen, ticked, seedVars, topVars>>

RestartMenu ==
  /\ ~Ordered(OrderKinds)
  /\ menuOpen' = FALSE /\ ticked' = FALSE /\ seedEnabled' = FALSE /\ windowOnTop' = FALSE
  /\ consent' = seedStored
  /\ orders' = <<Order("read", FALSE), Order("top", IsOnTop)>>
  /\ seedCrossed' = FALSE /\ topCrossed' = FALSE
  /\ UNCHANGED <<seedStored, onTop, onTopMigrated>>

MenuNext ==
  \/ OpenMenu \/ CloseMenu \/ ClickOnTop \/ ClickToBottom \/ RestartMenu
  \/ \E agrees \in BOOLEAN : ClickSeed(agrees)
  \/ \E i \in DOMAIN orders : OrderTaken(i) \/ OrderFails(i)

MenuSpec == MenuInit /\ [][MenuNext]_menuVars

-----------------------------------------------------------------------------
\* Unless calls about it overlapped or failed, at rest the menu shows what the
\* backend stores, and the backend seeds only what the user agreed to and has not
\* switched off since - whatever was stored when the program started.
SeedsOnlyByConsent ==
  ~seedCrossed /\ ~Ordered({"read", "answer", "seed"}) =>
    seedEnabled = seedStored /\ (seedStored => consent)

\* Unless calls overlapped or failed, the window at rest is on top exactly when
\* the preference, or the key of an older build, says so.
WindowAsStored == ~topCrossed /\ ~Ordered({"top"}) => windowOnTop = IsOnTop

\* goamp-menu.ts, window-layer.ts: the choices made in the menu hold, for the
\* backend and for the window, although the menu waits for neither.
ChoicesHold == SeedsOnlyByConsent /\ WindowAsStored
=============================================================================
