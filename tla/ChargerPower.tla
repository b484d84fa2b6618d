----------------------------- MODULE ChargerPower -----------------------------
(***************************************************************************)
(* Where the power comes from and goes to, in battery/bq25890_battery.c:   *)
(* the input current limit that follows the supplier's USB type, the Pump  *)
(* Express work that asks an adapter for a higher voltage, the 5 V boost   *)
(* (OTG) switched by the USB notifier and by the VBUS regulator, and the   *)
(* second charger that has to stay away from both.  Every handler runs in  *)
(* a thread of its own and none of them takes bq->lock, so each access of  *)
(* the chip or of the second charger that another handler can tell apart   *)
(* is a step.                                                              *)
(***************************************************************************)
EXTENDS Naturals

CONSTANTS
  UsbTypes,     \* values of POWER_SUPPLY_PROP_USB_TYPE
  DCP,          \* the one of a dedicated port
  UsbEvents,    \* enum usb_phy_events
  ChipVersions, \* enum bq25890_chip_version
  MaxTries      \* PUMP_EXPRESS_MAX_TRIES

\* The two events that bq25890_usb_work knows.
Switching == {"none", "id"}

\* "idle" names no type and no event: e_type and u_event need a value beside
\* them.
ASSUME PowerAssumption ==
  /\ DCP \in UsbTypes /\ "idle" \notin UsbTypes
  /\ Switching \subseteq UsbEvents /\ "idle" \notin UsbEvents
  /\ MaxTries \in Nat \ {0}

VARIABLES
  chip_version, pump_express,  \* bq->chip_version; pump_express_vbus_max is set
  usb_type,   \* POWER_SUPPLY_PROP_USB_TYPE of the supplier
  e_pending,  \* the power supply core has a change to deliver to the driver
  e_type,     \* what bq25890_charger_external_power_changed read, or "idle"
  iinlim,     \* IINLIM, named by the supply it was computed for
  p_queued,   \* pump_express_work is queued
  p_pc, tries,     \* bq25890_pump_express_work and its loop counter
  usb_event,  \* bq->usb_event
  u_queued, u_event,  \* usb_work queued; the event its execution has read
  asked,      \* history: the last event that switches the boost, or "lost"
              \* if another was stored over it before the work had read it
  r_pc,       \* the VBUS regulator: off, on, or inside one of its ops
  otg, otg_by,     \* the OTG_CFG bit: the boost; history: who wrote it last
  sec_online, \* ONLINE of the second charger
  failed      \* history: an access of the chip or of the supplier failed

config == <<chip_version, pump_express>>
supply == <<usb_type, e_pending, e_type, iinlim>>
pump   == <<p_queued, p_pc, tries>>
usb    == <<usb_event, u_queued, u_event, asked>>
boost  == <<otg, otg_by>>
pvars == <<config, supply, pump, usb, r_pc, boost, sec_online, failed>>

PInit ==
  /\ chip_version \in ChipVersions /\ pump_express \in BOOLEAN
  /\ usb_type \in UsbTypes /\ e_pending = FALSE /\ e_type = "idle"
  /\ iinlim = "dt"
  /\ p_queued = FALSE /\ p_pc = "idle" /\ tries = 0
  /\ usb_event = "none" /\ u_queued = FALSE /\ u_event = "idle"
  /\ asked = "none"
  /\ r_pc = "off" /\ otg = FALSE /\ otg_by = "usb"
  /\ sec_online = TRUE /\ failed = FALSE

-----------------------------------------------------------------------------
(* The input current limit *)

\* The supplier finds another port type, and the core will tell the driver.
SupplierChanges ==
  /\ usb_type' \in UsbTypes \ {usb_type}
  /\ e_pending' = TRUE
  /\ UNCHANGED <<config, e_type, iinlim, pump, usb, r_pc, boost, sec_online, failed>>

PumpsFor(t) == t = DCP /\ pump_express

\* bq25890_charger_external_power_changed: "On the BQ25892 try to get
\* charger-type info from our supplier"; the others return at once.
ExternalPowerIgnored ==
  /\ chip_version # "BQ25892"
  /\ e_pending' = FALSE
  /\ UNCHANGED <<e_type, p_queued, failed>>

\* The supplier has no type to give.
ExternalPowerUnread ==
  /\ chip_version = "BQ25892"
  /\ e_pending' = FALSE /\ failed' = TRUE
  /\ UNCHANGED <<e_type, p_queued>>

\* The type is read and, for a dedicated port, the Pump Express work queued,
\* where it is configured; queueing what is queued does nothing.
ExternalPowerType ==
  /\ chip_version = "BQ25892"
  /\ e_pending' = FALSE
  /\ e_type' = usb_type
  /\ p_queued' = (p_queued \/ PumpsFor(usb_type))
  /\ UNCHANGED failed

ExternalPowerRead ==
  /\ e_type = "idle" /\ e_pending
  /\ ExternalPowerIgnored \/ ExternalPowerUnread \/ ExternalPowerType
  /\ UNCHANGED <<config, usb_type, iinlim, p_pc, tries, usb, r_pc, boost,
                 sec_online>>

\* Mutant: a limit that userspace has set is left alone.
WrittenLimitShy == IF iinlim = "user" THEN "user" ELSE e_type

WrittenLimit == e_type

ExternalPowerWrite ==
  /\ e_type # "idle"
  /\ e_type' = "idle"
  /\ \/ iinlim' = WrittenLimit /\ UNCHANGED failed
     \/ failed' = TRUE /\ UNCHANGED iinlim
  /\ UNCHANGED <<config, usb_type, e_pending, pump, usb, r_pc, boost, sec_online>>

\* Userspace writes INPUT_CURRENT_LIMIT.
SetInputCurrentLimit ==
  /\ iinlim' = "user"
  /\ UNCHANGED <<config, usb_type, e_pending, e_type, pump, usb, r_pc, boost,
                 sec_online, failed>>

-----------------------------------------------------------------------------
(* bq25890_pump_express_work *)

\* "If there is a second charger put in Hi-Z mode".
PumpStart ==
  /\ p_queued /\ p_pc = "idle"
  /\ p_queued' = FALSE
  /\ p_pc' = "enable"
  /\ sec_online' = FALSE
  /\ UNCHANGED <<config, supply, tries, usb, r_pc, boost, failed>>

\* PUMPX_EN is set.
PumpEnable ==
  /\ p_pc = "enable"
  /\ p_pc' = "measure" /\ tries' = 0
  /\ UNCHANGED <<config, supply, p_queued, usb, r_pc, boost, sec_online, failed>>

TriesLeft == tries < MaxTries

\* The head of the loop: VBUS is measured while there are tries left, and the
\* loop is left when it is high enough.
PumpMeasure ==
  /\ p_pc = "measure"
  /\ \/ TriesLeft /\ p_pc' = "pulse"
     \/ p_pc' = "restore"
  /\ UNCHANGED <<config, supply, p_queued, tries, usb, r_pc, boost, sec_online,
                 failed>>

\* A pulse sequence is started, its end polled for, and the ADC waited for.
PumpPulse ==
  /\ p_pc = "pulse"
  /\ p_pc' = "measure"
  /\ tries' = IF tries < MaxTries THEN tries + 1 ELSE tries
  /\ UNCHANGED <<config, supply, p_queued, usb, r_pc, boost, sec_online, failed>>

\* Mutant: the second charger stays as the work has set it.
RestoredKept == FALSE

Restored == TRUE

\* The way out: PUMPX_EN is cleared and the second charger switched on again.
PumpRestore ==
  /\ p_pc = "restore"
  /\ p_pc' = "idle"
  /\ sec_online' = Restored
  /\ UNCHANGED <<config, supply, p_queued, tries, usb, r_pc, boost, failed>>

\* error_print, from each access that can fail (a pulse that does not end
\* within 3 s is one): the second charger is not switched back.
PumpError ==
  /\ p_pc \in {"enable", "measure", "pulse"}
  /\ p_pc = "measure" => TriesLeft
  /\ p_pc' = "idle" /\ failed' = TRUE
  /\ UNCHANGED <<config, supply, p_queued, tries, usb, r_pc, boost, sec_online>>

Pump ==
  PumpStart \/ PumpEnable \/ PumpMeasure \/ PumpPulse \/ PumpRestore
  \/ PumpError

-----------------------------------------------------------------------------
(* The boost converter *)

Asks(e) ==
  asked' = IF e \in Switching THEN e
           ELSE IF u_queued /\ usb_event \in Switching THEN "lost" ELSE asked

\* Mutant: an event that arrives while the work runs is not queued again.
UsbNotifierLosing ==
  /\ \E e \in UsbEvents : usb_event' = e /\ Asks(e)
  /\ u_queued' = (u_event = "idle")
  /\ UNCHANGED <<config, supply, pump, u_event, r_pc, boost, sec_online, failed>>

\* bq25890_usb_notifier: the event is stored, whatever it is, then the work
\* queued.
UsbNotifier ==
  /\ \E e \in UsbEvents : usb_event' = e /\ Asks(e)
  /\ u_queued' = TRUE
  /\ UNCHANGED <<config, supply, pump, u_event, r_pc, boost, sec_online, failed>>

\* bq25890_usb_work looks at bq->usb_event when it starts.
UsbWorkBegin ==
  /\ u_queued /\ u_event = "idle"
  /\ u_queued' = FALSE
  /\ u_event' = usb_event
  /\ UNCHANGED <<config, supply, pump, usb_event, asked, r_pc, boost,
                 sec_online, failed>>

\* bq25890_set_otg_cfg for a caller that has written and for one that failed.
Otg(on, who) == otg' = on /\ otg_by' = who /\ UNCHANGED failed
OtgFails == failed' = TRUE /\ UNCHANGED boost

UsbWorkSet ==
  /\ u_event # "idle"
  /\ u_event' = "idle"
  /\ \/ u_event \in Switching /\ (Otg(u_event = "id", "usb") \/ OtgFails)
     \/ u_event \notin Switching /\ UNCHANGED <<boost, failed>>
  /\ UNCHANGED <<config, supply, pump, usb_event, u_queued, asked, r_pc,
                 sec_online>>

\* The regulator core asks bq25890_vbus_is_enabled first: with the boost on
\* already, by a USB event, the driver's enable is not called.
VbusAlreadyOn ==
  /\ r_pc = "off" /\ otg
  /\ r_pc' = "on"
  /\ UNCHANGED <<config, supply, pump, usb, boost, sec_online, failed>>

\* bq25890_vbus_enable: "we need to put the secondary charger in Hi-Z mode".
VbusIsolate ==
  /\ r_pc = "off" /\ ~otg
  /\ r_pc' = "boost"
  /\ sec_online' = FALSE
  /\ UNCHANGED <<config, supply, pump, usb, boost, failed>>

VbusBoost ==
  /\ r_pc = "boost"
  /\ \/ Otg(TRUE, "vbus") /\ r_pc' = "on"
     \/ OtgFails /\ r_pc' = "off"
  /\ UNCHANGED <<config, supply, pump, usb, sec_online>>

\* bq25890_vbus_disable: the boost ends first; if that fails so does the call.
VbusUnboost ==
  /\ r_pc = "on"
  /\ \/ Otg(FALSE, "vbus") /\ r_pc' = "release"
     \/ OtgFails /\ UNCHANGED r_pc
  /\ UNCHANGED <<config, supply, pump, usb, sec_online>>

VbusRelease ==
  /\ r_pc = "release"
  /\ r_pc' = "off"
  /\ sec_online' = TRUE
  /\ UNCHANGED <<config, supply, pump, usb, boost, failed>>

-----------------------------------------------------------------------------
ExternalPower == ExternalPowerRead \/ ExternalPowerWrite
UsbWork == UsbWorkBegin \/ UsbWorkSet
Vbus == VbusBoost \/ VbusRelease

PNext ==
  \/ SupplierChanges \/ ExternalPower \/ SetInputCurrentLimit
  \/ Pump
  \/ UsbNotifier \/ UsbWork
  \/ VbusAlreadyOn \/ VbusIsolate \/ VbusUnboost \/ Vbus

\* Queued works and begun calls are run; nobody has to plug or to call.
PFairness ==
  WF_pvars(ExternalPower) /\ WF_pvars(Pump) /\ WF_pvars(UsbWork) /\ WF_pvars(Vbus)

PSpec == PInit /\ [][PNext]_pvars /\ PFairness

-----------------------------------------------------------------------------
(* Properties. *)

\* Pump Express and the VBUS regulator both switch the second charger off and
\* on again, in any overlap: when neither holds it off any more it is on, as
\* long as no access has failed (:4365, :4437; the error path does not).
SecondaryComesBack ==
  p_pc = "idle" /\ r_pc = "off" /\ ~failed => sec_online

\* On the BQ25892, the one chip whose driver looks at the supplier: changes of
\* the supplier come in bursts and are delivered once, and the limit the chip
\* ends up with is that of the last type, unless userspace wrote one after it,
\* the type could not be read or a write failed (:3338).
LimitFollowsSupply ==
  \A t \in UsbTypes :
    chip_version = "BQ25892" /\ usb_type = t /\ e_pending
      ~> (iinlim = t \/ usb_type # t \/ failed)

\* USB events are coalesced: whatever the interleaving with the work, and with
\* the events it ignores, the boost ends up as the last ID or NONE asked, unless
\* an ignored event was stored over it before the work had read it, the
\* regulator decided after it or a write failed (:4373, :4394).
BoostFollowsUsb ==
  \A e \in Switching :
    <>[](asked = e)
      => <>[](otg = (e = "id") \/ otg_by # "usb" \/ failed)

=============================================================================
