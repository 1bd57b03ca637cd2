------------------------------ MODULE LightCtrl ------------------------------
(***************************************************************************)
(* The Light Lightness Control Server of the Bluetooth mesh models         *)
(* (subsys/bluetooth/mesh/light_ctrl_srv.c) on top of a Lightness Server   *)
(* (lightness_srv.c).  A handler runs to its end: messages come from the   *)
(* cooperative receive thread, timeouts from the system work queue.        *)
(*                                                                         *)
(* Time is discrete.  A delayed work is Idle or the number of ticks it     *)
(* still waits; at 0 it is queued and its handler runs before time passes  *)
(* again, but other handlers may run first, and may submit or cancel it.   *)
(* Light and illuminance levels are left out: what the regulator computes  *)
(* is a choice of one of its outcomes.                                     *)
(***************************************************************************)
EXTENDS Integers

CONSTANTS
    Configs,          \* values of struct bt_mesh_light_ctrl_srv_cfg
    DefaultConfig,    \* BT_MESH_LIGHT_CTRL_SRV_CFG_INIT
    Times,            \* transition times of a message
    Delays,           \* transition delays of a message
    STORE_TIMEOUT, TIME_MANUAL, REG_INT,
    OCCUPANCY_MODE,   \* CONFIG_BT_MESH_LIGHT_CTRL_SRV_OCCUPANCY_MODE
    OnPowerUp,        \* values of the OnPowerUp state met at a start
    UINT32_MAX        \* largest uint32_t; scaled down for model checking

Idle == -1

States == {"STANDBY", "ON", "PROLONG"}

PendingFlags == {"OCC_PENDING", "ON_PENDING", "OFF_PENDING"}

StoreFlags == {"STORE_CFG", "STORE_STATE"}

Flags == {"ON", "OCC_MODE", "MANUAL", "TRANSITION",
          "CTRL_SRV_MANUALLY_ENABLED", "STARTED"} \cup PendingFlags \cup StoreFlags

ConfigTimes == {"occupancy_delay", "fade_on", "on", "fade_prolong", "prolong",
                "fade_standby_auto", "fade_standby_manual"}

ASSUME ConfigAssumption ==
    /\ DefaultConfig \in Configs
    /\ Configs \subseteq [ConfigTimes -> 0 .. UINT32_MAX]
ASSUME TimeAssumption ==
    /\ UINT32_MAX \in Nat /\ TIME_MANUAL \in 0 .. UINT32_MAX
    /\ STORE_TIMEOUT \in Nat /\ REG_INT \in Nat
    /\ Times \subseteq 0 .. UINT32_MAX /\ Delays \subseteq Nat
ASSUME KconfigAssumption ==
    /\ OCCUPANCY_MODE \in BOOLEAN
    /\ OnPowerUp \subseteq {"OFF", "ON", "RESTORE"}

VARIABLES
    srv,       \* struct bt_mesh_light_ctrl_srv, the CONTROLLED flag of its
               \* Lightness Server, and the last OnOff state published
    cfg,       \* srv->cfg
    stored,    \* the state saved in the settings; history: the last save failed
    running    \* light_ctrl_srv_start() has been called

vars == <<srv, cfg, stored, running>>

-----------------------------------------------------------------------------
(* Timers and flags. *)

Has(s, flag) == flag \in s.flags

(* Mutant: a delay is not a 32-bit number. *)
Unbounded(time) == time

(* uint32_t arithmetic of a delay in milliseconds. *)
UInt32(time) == time % (UINT32_MAX + 1)

remaining_get(time) == IF time = Idle THEN 0 ELSE time

store(s, kind) ==
    [s EXCEPT !.flags = @ \cup {kind},
              !.store_timer = IF s.flags \cap StoreFlags = {} THEN STORE_TIMEOUT ELSE @]

remaining_fade_time(s) == IF Has(s, "TRANSITION") THEN remaining_get(s.timer) ELSE 0

state_is_on(s, state) ==
    IF s.duration > 0 THEN state # "STANDBY" \/ Has(s, "TRANSITION")
                      ELSE s.state # "STANDBY"

onoff_pub(s, prev_state) == [s EXCEPT !.published = state_is_on(s, prev_state)]

(* A change that is already on its way keeps its earlier time. *)
Earlier(s, value, delay) ==
    /\ s.flags \cap (IF value THEN {"ON_PENDING", "OCC_PENDING"} ELSE {"OFF_PENDING"}) # {}
    /\ remaining_get(s.action_delay) < delay

delayed_change(s, delay, flag) ==
    [s EXCEPT !.flags = (@ \ PendingFlags) \cup {flag}, !.action_delay = delay]

delayed_occupancy(s, since_motion) ==
    LET delay == cfg.occupancy_delay - since_motion
    IN  IF delay < 0 \/ Earlier(s, TRUE, delay) THEN s
        ELSE delayed_change(s, delay, "OCC_PENDING")

delayed_set(s, time, delay, value) ==
    IF Earlier(s, value, delay) THEN s
    ELSE [delayed_change(s, delay, IF value THEN "ON_PENDING" ELSE "OFF_PENDING")
             EXCEPT !.duration = time]

-----------------------------------------------------------------------------
(* State changes. *)

(* Mutant: the fade is not marked. *)
transition_start_unmarked(s, state, fade_time) ==
    [s EXCEPT !.state = state, !.duration = fade_time, !.timer = fade_time]

transition_start(s, state, fade_time) ==
    [s EXCEPT !.state = state, !.duration = fade_time,
              !.flags = @ \cup {"TRANSITION"}, !.timer = fade_time]

(* Mutant: the state is published before it changes. *)
turn_on_publishes_first(s, fade_time) ==
    IF ~s.controlled THEN s
    ELSE IF s.state = "ON"
    THEN [s EXCEPT !.timer = UInt32(remaining_fade_time(s) + cfg.on)]
    ELSE LET lit == IF s.state # "STANDBY" THEN s
                    ELSE store([s EXCEPT !.flags = (@ \cup {"ON"}) \ {"MANUAL"}], "STORE_STATE")
         IN  transition_start(onoff_pub(lit, s.state), "ON", fade_time)

(* In On during the fade the new timeout adds up with the rest of the fade *)
(* and is still taken for the fade, so the next one adds up with it.       *)
turn_on(s, fade_time) ==
    IF ~s.controlled THEN s
    ELSE IF s.state = "ON"
    THEN [s EXCEPT !.timer = UInt32(remaining_fade_time(s) + cfg.on)]
    ELSE LET lit == IF s.state # "STANDBY" THEN s
                    ELSE store([s EXCEPT !.flags = (@ \cup {"ON"}) \ {"MANUAL"}], "STORE_STATE")
         IN  onoff_pub(transition_start(lit, "ON", fade_time), s.state)

(* Mutant: the change is not stored. *)
ToStandbyUnsaved(s, fade_time) ==
    LET fading == transition_start(s, "STANDBY", fade_time)
    IN  onoff_pub([fading EXCEPT !.flags = @ \ {"ON"}], s.state)

(* Leaves On or Prolong for Standby, by a switch or by the timeout. *)
ToStandby(s, fade_time) ==
    LET fading == transition_start(s, "STANDBY", fade_time)
    IN  onoff_pub(store([fading EXCEPT !.flags = @ \ {"ON"}], "STORE_STATE"), s.state)

(* Mutant: the Prolong timer is restarted instead. *)
turn_off_auto_restarts(s) ==
    IF ~s.controlled \/ s.state # "PROLONG" THEN s ELSE [s EXCEPT !.timer = cfg.prolong]

turn_off_auto(s) ==
    IF ~s.controlled \/ s.state # "PROLONG" THEN s
    ELSE ToStandby(s, cfg.fade_standby_auto)

turn_off(s, fade_time) ==
    LET manual == [s EXCEPT !.flags = @ \cup {"MANUAL"}]
    IN  IF ~s.controlled THEN s
        ELSE IF s.state # "STANDBY" THEN ToStandby(manual, fade_time)
        ELSE IF fade_time < remaining_fade_time(s)
             THEN transition_start(manual, "STANDBY", fade_time)
             ELSE manual

prolong(s) ==
    IF ~s.controlled \/ s.state # "ON" THEN s
    ELSE transition_start(s, "PROLONG", cfg.fade_prolong)

reg_start(s) == [s EXCEPT !.reg_timer = REG_INT]

ctrl_enable(s) ==
    reg_start(transition_start([s EXCEPT !.controlled = TRUE], "STANDBY", 0))

(* Mutant: the pending changes are not cleared with their timer. *)
ctrl_disable_keeps_pending(s) ==
    [s EXCEPT !.flags = @ \cap ({"OCC_MODE"} \cup PendingFlags), !.controlled = FALSE,
              !.state = "STANDBY", !.action_delay = Idle, !.timer = Idle, !.reg_timer = Idle]

(* Only the configuration flag survives: FLAG_STARTED goes as well. *)
ctrl_disable(s) ==
    [s EXCEPT !.flags = @ \cap {"OCC_MODE"}, !.controlled = FALSE, !.state = "STANDBY",
              !.action_delay = Idle, !.timer = Idle, !.reg_timer = Idle]

-----------------------------------------------------------------------------
(* Timeouts. *)

Expired(timer) == srv[timer] = 0

(* TIME_MANUAL is taken as it is, although it is in seconds: with the      *)
(* default configuration it is below the fade and the difference wraps.    *)
AfterFade(s) ==
    CASE s.state = "ON"      -> [s EXCEPT !.timer = cfg.on]
      [] s.state = "PROLONG" -> [s EXCEPT !.timer = cfg.prolong]
      [] s.state = "STANDBY" -> IF Has(s, "MANUAL")
             THEN [s EXCEPT !.timer = UInt32(TIME_MANUAL - cfg.fade_standby_manual)] ELSE s

timeout ==
    LET s    == [srv EXCEPT !.timer = Idle]
        done == [s EXCEPT !.flags = @ \ {"TRANSITION"}]
    IN  /\ Expired("timer")
        /\ srv' = IF Has(s, "TRANSITION")
                  THEN AfterFade(IF s.duration > 0 THEN onoff_pub(done, s.state) ELSE done)
                  ELSE CASE s.state = "ON"      -> prolong(s)
                         [] s.state = "PROLONG" -> turn_off_auto(s)
                         [] s.state = "STANDBY" -> [s EXCEPT !.flags = @ \ {"MANUAL"}]
        /\ UNCHANGED <<cfg, stored, running>>

(* Mutant: the mode at the sensor's message is relied on. *)
OccupancyAllowedBefore(s) == TRUE

(* The occupancy mode is looked at again: it may have changed since. *)
OccupancyAllowed(s) == s.state = "ON" \/ Has(s, "OCC_MODE")

delayed_action_timeout ==
    LET s == [srv EXCEPT !.action_delay = Idle]
        taken(flag) == [s EXCEPT !.flags = @ \ {flag}]
        occ == taken("OCC_PENDING")
    IN  /\ Expired("action_delay")
        /\ srv' = IF Has(s, "ON_PENDING") THEN turn_on(taken("ON_PENDING"), s.duration)
                  ELSE IF Has(s, "OFF_PENDING") THEN turn_off(taken("OFF_PENDING"), s.duration)
                  ELSE IF Has(s, "OCC_PENDING") /\ OccupancyAllowed(s)
                  THEN turn_on(occ, cfg.fade_on)
                  ELSE occ
        /\ UNCHANGED <<cfg, stored, running>>

(* The outcomes of bt_mesh_model_data_store(): the state is saved, or an   *)
(* error is logged and the old one stays.                                  *)
model_data_store ==
    {[enabled |-> srv.controlled, on |-> Has(srv, "ON"), occ_mode |-> Has(srv, "OCC_MODE"),
      failed |-> FALSE],
     [stored EXCEPT !.failed = TRUE]}

(* The flag is cleared before the save and not set again when it fails.    *)
(* No code stores the configuration: FLAG_STORE_CFG is never set.          *)
store_timeout ==
    /\ Expired("store_timer")
    /\ srv' = [srv EXCEPT !.store_timer = Idle, !.flags = @ \ StoreFlags]
    /\ stored' \in IF Has(srv, "STORE_STATE") THEN model_data_store ELSE {stored}
    /\ UNCHANGED <<cfg, running>>

(* The regulator stops inside its dead zone; otherwise it sets the level   *)
(* (and FLAG_REGULATOR, which only it reads) and goes on.                  *)
reg_step ==
    LET s == [srv EXCEPT !.reg_timer = Idle]
    IN  /\ Expired("reg_timer")
        /\ \/ srv' = s
           \/ srv.controlled /\ srv' = reg_start(s)
        /\ UNCHANGED <<cfg, stored, running>>

Timers == {"timer", "action_delay", "store_timer", "reg_timer"}

Passed(time) == IF time > 0 THEN time - 1 ELSE time

Tick ==
    /\ \A t \in Timers : ~Expired(t)
    /\ \E t \in Timers : srv[t] > 0
    /\ srv' = [srv EXCEPT !.timer = Passed(@), !.action_delay = Passed(@),
                          !.store_timer = Passed(@), !.reg_timer = Passed(@)]
    /\ UNCHANGED <<cfg, stored, running>>

-----------------------------------------------------------------------------
(* Messages.  A repeated transaction identifier changes nothing. *)

Handled(s) == running /\ srv' = s /\ UNCHANGED <<cfg, stored, running>>

TurnedOnOff(value, on_time, off_time) ==
    IF value THEN turn_on(srv, on_time) ELSE turn_off(srv, off_time)

(* Light LC Light OnOff Set with a transition, or without one. *)
light_onoff_set(value) ==
    \/ \E time \in Times, delay \in Delays :
          Handled(IF delay > 0 THEN delayed_set(srv, time, delay, value)
                  ELSE TurnedOnOff(value, time, time))
    \/ Handled(TurnedOnOff(value, cfg.fade_on, cfg.fade_standby_manual))

(* Generic OnOff Set: a transition time of 0 stands for the configured one. *)
onoff_set(value) ==
    \E time \in Times, delay \in Delays :
       Handled(IF delay > 0 THEN delayed_set(srv, time, delay, value)
               ELSE TurnedOnOff(value, IF time > 0 THEN time ELSE cfg.fade_on,
                                IF time > 0 THEN time ELSE cfg.fade_standby_manual))

(* An occupancy sensor: a presence, or the time since the last motion. *)
handle_sensor_status ==
    LET heard == srv.state # "STANDBY" \/ Has(srv, "OCC_MODE")
    IN  \/ Handled(IF heard THEN turn_on(srv, cfg.fade_on) ELSE srv)
        \/ \E since \in 0 .. cfg.occupancy_delay + 1 :
              Handled(IF heard THEN delayed_occupancy(srv, since) ELSE srv)

om_set ==
    \E mode \in BOOLEAN :
       Handled(store([srv EXCEPT !.flags = IF mode THEN @ \cup {"OCC_MODE"}
                                                   ELSE @ \ {"OCC_MODE"}], "STORE_STATE"))

prop_set == running /\ cfg' \in Configs /\ UNCHANGED <<srv, stored, running>>

(* Light Lightness Set: the Lightness Server takes itself out of control. *)
lightness_set == Handled([srv EXCEPT !.controlled = FALSE])

-----------------------------------------------------------------------------
(* The application, mode messages and the life of the device. *)

bt_mesh_light_ctrl_srv_on == Handled(turn_on(srv, cfg.fade_on))

bt_mesh_light_ctrl_srv_off == Handled(turn_off(srv, cfg.fade_standby_manual))

Enabled(s) ==
    IF s.controlled \/ ~Has(s, "STARTED") THEN s ELSE store(ctrl_enable(s), "STORE_STATE")

bt_mesh_light_ctrl_srv_enable ==
    /\ srv' = Enabled([srv EXCEPT !.flags = @ \cup {"CTRL_SRV_MANUALLY_ENABLED"}])
    /\ UNCHANGED <<cfg, stored, running>>

Disabled(s) == IF s.controlled THEN store(ctrl_disable(s), "STORE_STATE") ELSE s

bt_mesh_light_ctrl_srv_disable ==
    /\ srv' = Disabled([srv EXCEPT !.flags = @ \ {"CTRL_SRV_MANUALLY_ENABLED"}])
    /\ UNCHANGED <<cfg, stored, running>>

(* Called by the application, before the start too, and by Mode Set. *)
mode_set == bt_mesh_light_ctrl_srv_enable \/ bt_mesh_light_ctrl_srv_disable

(* light_ctrl_srv_init() and then settings_set() with what was saved. *)
BootState(saved) ==
    [flags |-> (IF saved.on THEN {"ON"} ELSE {})
                 \cup (IF saved.occ_mode \/ OCCUPANCY_MODE THEN {"OCC_MODE"} ELSE {}),
     state |-> "STANDBY", controlled |-> saved.enabled, duration |-> 0, published |-> FALSE,
     timer |-> Idle, action_delay |-> Idle, store_timer |-> Idle, reg_timer |-> Idle]

Restored(s) ==
    IF ~s.controlled THEN s
    ELSE IF Has(s, "ON") THEN turn_on(reg_start(s), cfg.fade_on) ELSE reg_start(s)

light_ctrl_srv_start ==
    LET s == [srv EXCEPT !.flags = @ \cup {"STARTED"}]
    IN  /\ ~running
        /\ \E on_power_up \in OnPowerUp :
              srv' = IF on_power_up = "RESTORE" THEN Restored(s)
                     ELSE store(IF Has(s, "CTRL_SRV_MANUALLY_ENABLED")
                                THEN ctrl_enable(s) ELSE ctrl_disable(s), "STORE_STATE")
        /\ running' = TRUE
        /\ UNCHANGED <<cfg, stored>>

(* A power cut at any time: only what was saved survives. *)
Reboot ==
    /\ srv' = BootState(stored) /\ cfg' = DefaultConfig /\ running' = FALSE
    /\ stored' = [stored EXCEPT !.failed = FALSE]

Init ==
    /\ stored = [enabled |-> FALSE, on |-> FALSE, occ_mode |-> FALSE, failed |-> FALSE]
    /\ srv = BootState(stored) /\ cfg = DefaultConfig /\ running = FALSE

Commands(value) ==
    \/ light_onoff_set(value)
    \/ onoff_set(value)
    \/ (IF value THEN bt_mesh_light_ctrl_srv_on ELSE bt_mesh_light_ctrl_srv_off)

Application == om_set \/ prop_set \/ lightness_set \/ mode_set

OnEvents == Commands(TRUE) \/ handle_sensor_status

Timeouts == timeout \/ delayed_action_timeout \/ store_timeout \/ reg_step

Next ==
    \/ OnEvents \/ Commands(FALSE) \/ Application
    \/ Timeouts \/ Tick
    \/ light_ctrl_srv_start \/ Reboot

Spec == Init /\ [][Next]_vars

(* The work queue runs every work that is due, and time passes. *)
Fairness ==
    /\ WF_vars(timeout) /\ WF_vars(delayed_action_timeout)
    /\ WF_vars(store_timeout) /\ WF_vars(reg_step) /\ WF_vars(Tick)

FairSpec == Spec /\ Fairness

-----------------------------------------------------------------------------
(* Types: flags and states of the structure, delays that a uint32_t holds. *)
TypeOK ==
    /\ srv \in [flags : SUBSET Flags, state : States, controlled : BOOLEAN,
                duration : 0 .. UINT32_MAX, published : BOOLEAN,
                timer : {Idle} \cup 0 .. UINT32_MAX, action_delay : {Idle} \cup Nat,
                store_timer : {Idle} \cup 0 .. STORE_TIMEOUT,
                reg_timer : {Idle} \cup 0 .. REG_INT]
    /\ cfg \in Configs
    /\ stored \in [enabled : BOOLEAN, on : BOOLEAN, occ_mode : BOOLEAN, failed : BOOLEAN]
    /\ running \in BOOLEAN

(* Nothing the server waits for is without the timer that ends it: a light *)
(* under control that is on or fading has its state timer submitted, the   *)
(* one pending change its action delay, a pending save its store timer.    *)
(* turn_on(), transition_start(), delayed_change(), store(), ctrl_disable() *)
(* and lightness_set() change flags and timers in separate places.         *)
WaitsForTimer ==
    /\ srv.controlled /\ (srv.state # "STANDBY" \/ Has(srv, "TRANSITION")) => srv.timer # Idle
    /\ srv.flags \cap PendingFlags # {} => srv.action_delay # Idle
    /\ srv.flags \cap StoreFlags # {} => srv.store_timer # Idle
    /\ \A f, g \in srv.flags \cap PendingFlags : f = g

(* What a power cut would restore is out of date only while a save is      *)
(* under way or since one failed: a change of the On or occupancy mode     *)
(* state is never left unsaved by store(), although ctrl_disable() drops a *)
(* pending save and settings_set() only ever sets flags.  After a failed   *)
(* save nothing tries again; the next change that is saved, or a restart,  *)
(* brings the two together.                                                *)
ChangesSaved ==
    \/ "STORE_STATE" \in srv.flags
    \/ stored.failed
    \/ /\ Has(srv, "ON") = stored.on
       /\ Has(srv, "OCC_MODE") = (stored.occ_mode \/ OCCUPANCY_MODE)

(* Whatever the server published last, a light that it holds on was        *)
(* announced as on: onoff_pub() is called on every way out of Standby,     *)
(* the restart included, and no later publication says off.                *)
LitIsPublished == srv.controlled /\ srv.state # "STANDBY" => srv.published /\ Has(srv, "ON")

(* A sensor turns a light in Standby on only while the occupancy mode is   *)
(* on, also when its occupancy delay ends after the mode was changed       *)
(* (handle_sensor_status(), delayed_action_timeout()).                     *)
SensorsObeyMode ==
    [][ srv.state = "STANDBY" /\ srv'.state # "STANDBY"
        /\ (handle_sensor_status \/ (delayed_action_timeout /\ Has(srv, "OCC_PENDING")))
           => Has(srv, "OCC_MODE") ]_vars

(* The server is the state machine of its documentation: it leaves a lit   *)
(* state for Standby only from Prolong or by an Off, fades into every      *)
(* state, and does nothing to a light it does not control.                 *)
Machine == INSTANCE LightMachine WITH
    light <- IF ~running \/ ~srv.controlled THEN "Disabled"
             ELSE CASE srv.state = "STANDBY" -> IF Has(srv, "TRANSITION") THEN "FadeStandby" ELSE "Standby"
                    [] srv.state = "ON"      -> IF Has(srv, "TRANSITION") THEN "FadeOn" ELSE "On"
                    [] srv.state = "PROLONG" -> IF Has(srv, "TRANSITION") THEN "FadeProlong" ELSE "Prolong"

ImplementsMachine == Machine!MachineSpec

(* A light is not left burning: when switches and sensors stop turning it  *)
(* on and the device is not restarted, the timeouts take a controlled      *)
(* light through Prolong back to Standby, whatever the other messages are. *)
EndsInStandby ==
    <>[][~Reboot /\ ~light_ctrl_srv_start /\ ~OnEvents]_vars
       => <>[](srv.controlled => srv.state = "STANDBY")
=============================================================================
