----------------------------- MODULE AudioDevice ----------------------------
(***************************************************************************)
(* The output device (src/src/settings/AudioDevicePanel.ts): the panel     *)
(* that lists the devices, the switch that moves the media elements of the *)
(* page to one of them, one after the other, and its repetition two        *)
(* seconds after the program starts. An element may refuse to move, the    *)
(* choice may not be stored, and the devices may not be listed.            *)
(***************************************************************************)
EXTENDS Integers, SequencesExt

CONSTANTS Device, DefaultDevice,
          Elements,     \* how many media elements the page has
          MaxSwitches   \* bound on the switches and renders under way

NoDevice == "none"

ASSUME DeviceAssumption ==
  /\ DefaultDevice \in Device /\ NoDevice \notin Device
  /\ Elements \in Nat \ {0} /\ MaxSwitches \in Nat \ {0}

VARIABLES
  devicePanel, deviceTimers, \* is the panel there; calls of closePanel not yet carried out
  marked,        \* the device whose row is marked, in the list as it was rendered last
  deviceId,      \* goamp_audio_device_id
  sinks,         \* the device each element plays on
  present,       \* the devices that can be played on
  restoring,     \* the device the timer of restoreAudioDevice will switch to
  switches,      \* switches under way: device, elements already moved, who asked
  listings,      \* calls of renderDevices that wait for the list of devices
  switchesCrossed, \* history: the switches under way overlapped, or will with the timer
  trouble        \* history: what went wrong since a click was last carried out alone

deviceVars == <<devicePanel, deviceTimers, marked, deviceId, sinks, present, restoring, switches,
                listings, switchesCrossed, trouble>>
historyVars == <<switchesCrossed, trouble>>

\* "half": clicks failed, perhaps after some elements had moved. "astray": switches
\* crossed, the stored device could not be restored, or a choice not stored.
Troubles == {"none", "half", "astray"}

DeviceTypeOK ==
  /\ {devicePanel, switchesCrossed} \subseteq BOOLEAN /\ {deviceTimers, listings} \subseteq Nat
  /\ {marked, restoring} \subseteq Device \cup {NoDevice} /\ deviceId \in Device
  /\ sinks \in [1..Elements -> Device] /\ present \subseteq Device
  /\ switches \in Seq([to : Device, moved : 0..Elements, click : BOOLEAN])
  /\ trouble \in Troubles

\* restoreAudioDevice at the start of the program.
DeviceStarts(id) ==
  /\ devicePanel' = FALSE /\ deviceTimers' = 0 /\ marked' = NoDevice
  /\ sinks' = [e \in 1..Elements |-> DefaultDevice]
  /\ restoring' = IF id = DefaultDevice THEN NoDevice ELSE id
  /\ switches' = <<>> /\ listings' = 0 /\ switchesCrossed' = FALSE /\ trouble' = "none"

DeviceInit ==
  /\ devicePanel = FALSE /\ deviceTimers = 0 /\ marked = NoDevice
  /\ deviceId \in Device /\ present \in {D \in SUBSET Device : DefaultDevice \in D}
  /\ sinks = [e \in 1..Elements |-> DefaultDevice]
  /\ restoring = IF deviceId = DefaultDevice THEN NoDevice ELSE deviceId
  /\ switches = <<>> /\ listings = 0 /\ switchesCrossed = FALSE /\ trouble = "none"

RestartDevice == DeviceStarts(deviceId) /\ UNCHANGED <<deviceId, present>>

OpenDevices ==
  /\ ~devicePanel /\ listings < MaxSwitches
  /\ devicePanel' = TRUE /\ marked' = NoDevice
  /\ listings' = listings + 1
  /\ UNCHANGED <<deviceTimers, deviceId, sinks, present, restoring, switches, historyVars>>

CloseDevices ==
  /\ devicePanel /\ deviceTimers < MaxSwitches
  /\ deviceTimers' = deviceTimers + 1
  /\ UNCHANGED <<devicePanel, marked, deviceId, sinks, present, restoring, switches, listings,
                 historyVars>>

DevicesClosed ==
  /\ deviceTimers > 0
  /\ deviceTimers' = deviceTimers - 1
  /\ devicePanel' = FALSE /\ marked' = NoDevice
  /\ UNCHANGED <<deviceId, sinks, present, restoring, switches, listings, historyVars>>

\* renderDevices after its awaits: the row of the device stored by then is marked,
\* or an error takes the place of the list.
DevicesListed ==
  /\ listings > 0
  /\ listings' = listings - 1
  /\ \/ marked' = IF devicePanel /\ deviceId \in present THEN deviceId ELSE NoDevice
     \/ marked' = NoDevice   \* enumerateDevices failed
  /\ UNCHANGED <<devicePanel, deviceTimers, deviceId, sinks, present, restoring, switches,
                 historyVars>>

BeginSwitch(d, clicked) ==
  /\ Len(switches) < MaxSwitches   \* bound
  /\ switches' = Append(switches, [to |-> d, moved |-> 0, click |-> clicked])
  /\ switchesCrossed' = (switches # <<>> \/ (clicked /\ restoring # NoDevice))

ClickDevice(d) ==
  /\ devicePanel /\ BeginSwitch(d, TRUE)
  /\ UNCHANGED <<devicePanel, deviceTimers, marked, deviceId, sinks, present, restoring, listings,
                 trouble>>

RestoreFires ==
  /\ restoring # NoDevice /\ BeginSwitch(restoring, FALSE)
  /\ restoring' = NoDevice
  /\ UNCHANGED <<devicePanel, deviceTimers, marked, deviceId, sinks, present, listings, trouble>>

\* faulty variant: one element too many.
OneTooMany(s) == s.moved <= Elements

MoreToMove(s) == s.moved < Elements

\* The next element's setSinkId succeeds.
ElementMoves(i) ==
  LET s == switches[i]
  IN  /\ MoreToMove(s) /\ s.to \in present
      /\ sinks' = [sinks EXCEPT ![s.moved + 1] = s.to]
      /\ switches' = [switches EXCEPT ![i].moved = @ + 1]
      /\ UNCHANGED <<devicePanel, deviceTimers, marked, deviceId, present, restoring, listings,
                     historyVars>>

\* faulty variant: a choice is stored whatever came of it.
ConcludedAnyway(s, success) ==
  IF s.click THEN deviceId' = s.to /\ listings' = IF devicePanel THEN listings + 1 ELSE listings
  ELSE UNCHANGED <<deviceId, listings>>

\* A click's choice is stored and the devices are listed again, if all have moved.
Concluded(s, success) ==
  IF s.click /\ success
  THEN deviceId' = s.to /\ listings' = IF devicePanel THEN listings + 1 ELSE listings
  ELSE UNCHANGED <<deviceId, listings>>

\* The next element's setSinkId throws: the device is gone, or refused.
ElementStays(i) ==
  LET s == switches[i]
  IN  /\ s.moved < Elements
      /\ Concluded(s, FALSE)
      /\ trouble' = IF switchesCrossed \/ ~s.click \/ trouble = "astray" THEN "astray" ELSE "half"
      /\ switches' = RemoveAt(switches, i)
      /\ UNCHANGED <<devicePanel, deviceTimers, marked, sinks, present, restoring, switchesCrossed>>

\* All have moved.
Switched(i) ==
  LET s == switches[i]
  IN  /\ s.moved = Elements /\ listings < MaxSwitches
      /\ \/ /\ Concluded(s, TRUE)
            /\ trouble' = IF switchesCrossed \/ (~s.click /\ trouble = "astray") THEN "astray"
                          ELSE "none"
         \/ /\ s.click   \* setItem throws
            /\ trouble' = "astray" /\ UNCHANGED <<deviceId, listings>>
      /\ switches' = RemoveAt(switches, i)
      /\ UNCHANGED <<devicePanel, deviceTimers, marked, sinks, present, restoring, switchesCrossed>>

\* A device is plugged in or out.
DevicePlugs(d) ==
  /\ d # DefaultDevice
  /\ present' = IF d \in present THEN present \ {d} ELSE present \cup {d}
  /\ UNCHANGED <<devicePanel, deviceTimers, marked, deviceId, sinks, restoring, switches, listings,
                 historyVars>>

DeviceNext ==
  \/ RestartDevice \/ OpenDevices \/ CloseDevices \/ DevicesClosed \/ DevicesListed \/ RestoreFires
  \/ \E d \in Device : ClickDevice(d) \/ DevicePlugs(d)
  \/ \E i \in DOMAIN switches : ElementMoves(i) \/ ElementStays(i) \/ Switched(i)

DeviceSpec == DeviceInit /\ [][DeviceNext]_deviceVars

-----------------------------------------------------------------------------
\* AudioDevicePanel.ts:103, "if (success)": once nothing is under way, the row
\* marked, if any, is that of the device stored for the next start; a switch that
\* stopped half-way was not stored as done, so that the element moved last still
\* plays on the stored device; and if no switch stopped half-way since one was
\* carried out, every element does. Excused is what the code does get wrong: that
\* switches cross, that the stored device cannot be restored and that a choice
\* cannot be stored.
SoundGoesWhereChosen ==
  switches = <<>> /\ listings = 0 =>
    /\ marked \in {NoDevice, deviceId}
    /\ restoring = NoDevice /\ trouble # "astray" =>
         /\ sinks[Elements] = deviceId
         /\ trouble = "none" => \A e \in 1..Elements : sinks[e] = deviceId
=============================================================================
