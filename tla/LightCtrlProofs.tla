--------------------------- MODULE LightCtrlProofs ---------------------------
(***************************************************************************)
(* Theorems about the Light Lightness Control Server, for every set of     *)
(* configurations, transition times and delays, and every value of the     *)
(* Kconfig options.                                                        *)
(*                                                                         *)
(* The handlers are functions from one state of the server to the next, so *)
(* most lemmas are about a server s, and not about the variable srv.       *)
(***************************************************************************)
EXTENDS LightCtrl, TLAPS

(* The states of struct bt_mesh_light_ctrl_srv, as in TypeOK. *)
Server ==
    [flags : SUBSET Flags, state : States, controlled : BOOLEAN,
     duration : 0 .. UINT32_MAX, published : BOOLEAN,
     timer : {Idle} \cup 0 .. UINT32_MAX, action_delay : {Idle} \cup Nat,
     store_timer : {Idle} \cup 0 .. STORE_TIMEOUT,
     reg_timer : {Idle} \cup 0 .. REG_INT]

LEMMA ConfigTypes ==
    ASSUME cfg \in Configs
    PROVE  /\ cfg.occupancy_delay \in 0 .. UINT32_MAX /\ cfg.fade_on \in 0 .. UINT32_MAX
           /\ cfg.on \in 0 .. UINT32_MAX /\ cfg.fade_prolong \in 0 .. UINT32_MAX
           /\ cfg.prolong \in 0 .. UINT32_MAX /\ cfg.fade_standby_auto \in 0 .. UINT32_MAX
           /\ cfg.fade_standby_manual \in 0 .. UINT32_MAX
<1>1. cfg \in [ConfigTimes -> 0 .. UINT32_MAX]
  BY ConfigAssumption
<1> QED BY <1>1 DEF ConfigTimes

LEMMA Wraps ==
    ASSUME NEW time \in Int
    PROVE  UInt32(time) \in 0 .. UINT32_MAX
<1>1. ASSUME NEW n \in Nat PROVE time % (n + 1) \in 0 .. n
  BY SMT
<1> QED BY <1>1, TimeAssumption DEF UInt32

LEMMA StoreType ==
    ASSUME NEW s \in Server, NEW kind \in StoreFlags
    PROVE  store(s, kind) \in Server
<1>1. s.flags \cup {kind} \in SUBSET Flags
  BY DEF Server, Flags
<1>2. (IF s.flags \cap StoreFlags = {} THEN STORE_TIMEOUT ELSE s.store_timer)
         \in {Idle} \cup 0 .. STORE_TIMEOUT
  BY TimeAssumption DEF Server
<1> QED BY <1>1, <1>2 DEF store, Server

LEMMA PubType ==
    ASSUME NEW s \in Server, NEW state \in States
    PROVE  onoff_pub(s, state) \in Server
<1>1. state_is_on(s, state) \in BOOLEAN
  BY DEF state_is_on
<1> QED BY <1>1 DEF onoff_pub, Server

LEMMA TransitionType ==
    ASSUME NEW s \in Server, NEW state \in States, NEW fade_time \in 0 .. UINT32_MAX
    PROVE  transition_start(s, state, fade_time) \in Server
BY TimeAssumption DEF transition_start, Server, Flags

LEMMA FlagsType ==
    ASSUME NEW s \in Server, NEW flags \in SUBSET Flags
    PROVE  [s EXCEPT !.flags = flags] \in Server
BY DEF Server

LEMMA TimerType ==
    ASSUME NEW s \in Server, NEW time \in {Idle} \cup 0 .. UINT32_MAX
    PROVE  [s EXCEPT !.timer = time] \in Server
BY DEF Server

LEMMA RemainingType ==
    ASSUME NEW s \in Server
    PROVE  /\ remaining_fade_time(s) \in 0 .. UINT32_MAX
           /\ remaining_get(s.action_delay) \in Nat
BY TimeAssumption DEF remaining_fade_time, remaining_get, Server, Idle

LEMMA StandbyType ==
    ASSUME NEW s \in Server, NEW fade_time \in 0 .. UINT32_MAX
    PROVE  ToStandby(s, fade_time) \in Server
<1> DEFINE fading == transition_start(s, "STANDBY", fade_time)
           dark == [fading EXCEPT !.flags = @ \ {"ON"}]
<1>1. fading \in Server
  BY TransitionType DEF States
<1>2. dark \in Server
  BY <1>1, FlagsType DEF Server
<1>3. store(dark, "STORE_STATE") \in Server
  BY <1>2, StoreType DEF StoreFlags
<1>4. s.state \in States
  BY DEF Server
<1> QED BY <1>3, <1>4, PubType DEF ToStandby

LEMMA TurnOnType ==
    ASSUME NEW s \in Server, NEW fade_time \in 0 .. UINT32_MAX, cfg \in Configs
    PROVE  turn_on(s, fade_time) \in Server
<1> DEFINE time == UInt32(remaining_fade_time(s) + cfg.on)
           bright == [s EXCEPT !.flags = (@ \cup {"ON"}) \ {"MANUAL"}]
           lit == IF s.state # "STANDBY" THEN s ELSE store(bright, "STORE_STATE")
<1>1. time \in {Idle} \cup 0 .. UINT32_MAX
  BY RemainingType, Wraps, ConfigTypes, TimeAssumption
<1>2. [s EXCEPT !.timer = time] \in Server
  BY <1>1, TimerType
<1>3. bright \in Server
  BY FlagsType DEF Server, Flags
<1>4. lit \in Server
  BY <1>3, StoreType DEF StoreFlags
<1>5. transition_start(lit, "ON", fade_time) \in Server
  BY <1>4, TransitionType DEF States
<1>6. onoff_pub(transition_start(lit, "ON", fade_time), s.state) \in Server
  BY <1>5, PubType DEF Server
<1> QED BY <1>2, <1>6 DEF turn_on

LEMMA TurnOffType ==
    ASSUME NEW s \in Server, NEW fade_time \in 0 .. UINT32_MAX
    PROVE  turn_off(s, fade_time) \in Server
<1> DEFINE manual == [s EXCEPT !.flags = @ \cup {"MANUAL"}]
<1>1. manual \in Server
  BY FlagsType DEF Server, Flags
<1>2. /\ ToStandby(manual, fade_time) \in Server
      /\ transition_start(manual, "STANDBY", fade_time) \in Server
  BY <1>1, StandbyType, TransitionType DEF States
<1> QED BY <1>1, <1>2 DEF turn_off

LEMMA DelayedType ==
    ASSUME NEW s \in Server, NEW delay \in Nat, NEW flag \in PendingFlags
    PROVE  delayed_change(s, delay, flag) \in Server
<1>1. (s.flags \ PendingFlags) \cup {flag} \in SUBSET Flags
  BY DEF Server, Flags
<1> QED BY <1>1 DEF delayed_change, Server

LEMMA DelayedSetType ==
    ASSUME NEW s \in Server, NEW time \in 0 .. UINT32_MAX, NEW delay \in Nat, NEW value \in BOOLEAN
    PROVE  delayed_set(s, time, delay, value) \in Server
<1> DEFINE d == delayed_change(s, delay, IF value THEN "ON_PENDING" ELSE "OFF_PENDING")
<1>1. d \in Server
  BY DelayedType DEF PendingFlags
<1>2. [d EXCEPT !.duration = time] \in Server
  BY <1>1 DEF Server
<1> QED BY <1>2 DEF delayed_set

LEMMA DelayedOccupancyType ==
    ASSUME NEW s \in Server, NEW since \in Nat, cfg \in Configs
    PROVE  delayed_occupancy(s, since) \in Server
<1> DEFINE delay == cfg.occupancy_delay - since
<1>1. delay < 0 \/ delay \in Nat
  BY ConfigTypes, TimeAssumption
<1>2. delay \in Nat => delayed_change(s, delay, "OCC_PENDING") \in Server
  BY DelayedType DEF PendingFlags
<1> QED BY <1>1, <1>2 DEF delayed_occupancy

LEMMA EnableTypes ==
    ASSUME NEW s \in Server
    PROVE  reg_start(s) \in Server /\ ctrl_enable(s) \in Server /\ ctrl_disable(s) \in Server
<1>1. ASSUME NEW r \in Server PROVE reg_start(r) \in Server
  BY TimeAssumption DEF reg_start, Server
<1>2. [s EXCEPT !.controlled = TRUE] \in Server
  BY DEF Server
<1>3. transition_start([s EXCEPT !.controlled = TRUE], "STANDBY", 0) \in Server
  BY <1>2, TransitionType, TimeAssumption DEF States
<1>4. s.flags \cap {"OCC_MODE"} \in SUBSET Flags
  BY DEF Server
<1>5. ctrl_disable(s) \in Server
  BY <1>4 DEF ctrl_disable, Server, States
<1> QED BY <1>1, <1>3, <1>5 DEF ctrl_enable

-----------------------------------------------------------------------------
(* What the invariants say of a server s and a saved state st. *)

Saves == [enabled : BOOLEAN, on : BOOLEAN, occ_mode : BOOLEAN, failed : BOOLEAN]

TimersRun(s) ==
    /\ s.controlled /\ (s.state # "STANDBY" \/ Has(s, "TRANSITION")) => s.timer # Idle
    /\ s.flags \cap PendingFlags # {} => s.action_delay # Idle
    /\ s.flags \cap StoreFlags # {} => s.store_timer # Idle
    /\ \A f, g \in s.flags \cap PendingFlags : f = g

Announced(s) == s.controlled /\ s.state # "STANDBY" => s.published /\ Has(s, "ON")

OnSaved(s, st) == "STORE_STATE" \in s.flags \/ st.failed \/ Has(s, "ON") = st.on

OccSaved(s, st) ==
    OCCUPANCY_MODE \/ "STORE_STATE" \in s.flags \/ st.failed \/ Has(s, "OCC_MODE") = st.occ_mode

Good(s, st) == TimersRun(s) /\ Announced(s) /\ OnSaved(s, st) /\ OccSaved(s, st)

(* A publication keeps what was announced of a light that is on. *)
LEMMA PubGood ==
    ASSUME NEW s \in Server, NEW st, NEW state, TimersRun(s), OnSaved(s, st), OccSaved(s, st),
           s.controlled /\ s.state # "STANDBY" => state_is_on(s, state) /\ Has(s, "ON")
    PROVE  Good(onoff_pub(s, state), st)
BY DEF onoff_pub, Good, TimersRun, Announced, OnSaved, OccSaved, Has, Server

LEMMA TurnOnGood ==
    ASSUME NEW s \in Server, NEW st, NEW fade_time \in 0 .. UINT32_MAX, cfg \in Configs, Good(s, st)
    PROVE  Good(turn_on(s, fade_time), st)
<1> DEFINE time == UInt32(remaining_fade_time(s) + cfg.on)
           bright == [s EXCEPT !.flags = (@ \cup {"ON"}) \ {"MANUAL"}]
           lit == IF s.state # "STANDBY" THEN s ELSE store(bright, "STORE_STATE")
           r == transition_start(lit, "ON", fade_time)
<1>1. time # Idle
  BY RemainingType, Wraps, ConfigTypes, TimeAssumption DEF Idle
<1>2. CASE s.state = "ON" \/ ~s.controlled
  BY <1>1, <1>2 DEF turn_on, Good, TimersRun, Announced, OnSaved, OccSaved, Has, Server
<1>3. CASE s.state # "ON" /\ s.controlled
  <2>1. TimersRun(r) /\ OnSaved(r, st) /\ OccSaved(r, st)
    BY <1>3, TimeAssumption
       DEF Good, TimersRun, OnSaved, OccSaved, Has, Server, transition_start, store, StoreFlags,
           PendingFlags, Idle
  <2>2. r.state # "STANDBY" /\ "TRANSITION" \in r.flags /\ "ON" \in r.flags
    BY <1>3 DEF Good, Announced, Has, Server, transition_start, store
  <2>3. lit \in Server
    BY FlagsType, StoreType DEF Server, Flags, StoreFlags
  <2>4. r \in Server
    BY <2>3, TransitionType DEF States
  <2>5. Good(onoff_pub(r, s.state), st)
    BY <2>1, <2>2, <2>4, PubGood DEF state_is_on, Has
  <2> QED BY <1>3, <2>5 DEF turn_on
<1> QED BY <1>2, <1>3

LEMMA StandbyGood ==
    ASSUME NEW s \in Server, NEW st, NEW fade_time \in 0 .. UINT32_MAX, Good(s, st)
    PROVE  Good(ToStandby(s, fade_time), st)
<1> DEFINE fading == transition_start(s, "STANDBY", fade_time)
           dark == [fading EXCEPT !.flags = @ \ {"ON"}]
           r == store(dark, "STORE_STATE")
<1>1. fading \in Server
  BY TransitionType DEF States
<1>2. dark \in Server
  BY <1>1, FlagsType DEF Server
<1>3. r \in Server
  BY <1>2, StoreType DEF StoreFlags
<1>4. TimersRun(r) /\ OnSaved(r, st) /\ OccSaved(r, st) /\ r.state = "STANDBY"
  BY TimeAssumption
     DEF Good, TimersRun, OnSaved, OccSaved, Has, Server, transition_start, store, StoreFlags,
         PendingFlags, Idle
<1> QED BY <1>3, <1>4, PubGood DEF ToStandby

LEMMA TurnOffGood ==
    ASSUME NEW s \in Server, NEW st, NEW fade_time \in 0 .. UINT32_MAX, Good(s, st)
    PROVE  Good(turn_off(s, fade_time), st)
<1> DEFINE manual == [s EXCEPT !.flags = @ \cup {"MANUAL"}]
<1>1. manual \in Server
  BY FlagsType DEF Server, Flags
<1>2. Good(manual, st)
  BY DEF Good, TimersRun, Announced, OnSaved, OccSaved, Has, Server, StoreFlags, PendingFlags
<1>3. Good(ToStandby(manual, fade_time), st)
  BY <1>1, <1>2, StandbyGood
<1>4. s.state = "STANDBY" => Good(transition_start(manual, "STANDBY", fade_time), st)
  BY <1>2, TimeAssumption
     DEF Good, TimersRun, Announced, OnSaved, OccSaved, Has, Server, transition_start,
         StoreFlags, PendingFlags, Idle
<1> QED BY <1>2, <1>3, <1>4 DEF turn_off

LEMMA DelayedGood ==
    ASSUME NEW s \in Server, NEW st, NEW delay \in Nat, NEW flag \in PendingFlags, Good(s, st)
    PROVE  Good(delayed_change(s, delay, flag), st)
BY DEF Good, TimersRun, Announced, OnSaved, OccSaved, Has, Server, delayed_change,
       StoreFlags, PendingFlags, Idle

LEMMA DelayedSetGood ==
    ASSUME NEW s \in Server, NEW st, NEW time \in 0 .. UINT32_MAX, NEW delay \in Nat,
           NEW value \in BOOLEAN, Good(s, st)
    PROVE  Good(delayed_set(s, time, delay, value), st)
<1> DEFINE d == delayed_change(s, delay, IF value THEN "ON_PENDING" ELSE "OFF_PENDING")
<1>1. d \in Server /\ Good(d, st)
  BY DelayedType, DelayedGood DEF PendingFlags
<1> HIDE DEF d
<1>2. Good([d EXCEPT !.duration = time], st)
  BY <1>1 DEF Good, TimersRun, Announced, OnSaved, OccSaved, Has, Server
<1> QED BY <1>2 DEF delayed_set, d

LEMMA DelayedOccupancyGood ==
    ASSUME NEW s \in Server, NEW st, NEW since \in Nat, cfg \in Configs, Good(s, st)
    PROVE  Good(delayed_occupancy(s, since), st)
<1> DEFINE delay == cfg.occupancy_delay - since
<1>1. delay < 0 \/ delay \in Nat
  BY ConfigTypes, TimeAssumption
<1>2. delay \in Nat => Good(delayed_change(s, delay, "OCC_PENDING"), st)
  BY DelayedGood DEF PendingFlags
<1> QED BY <1>1, <1>2 DEF delayed_occupancy

(* Enabling and disabling change the server before they store its state. *)
LEMMA StoredGood ==
    ASSUME NEW s \in Server, NEW st, Announced(s),
           s.controlled /\ (s.state # "STANDBY" \/ Has(s, "TRANSITION")) => s.timer # Idle,
           s.flags \cap PendingFlags # {} => s.action_delay # Idle,
           s.flags \cap StoreFlags # {} => s.store_timer # Idle,
           \A f, g \in s.flags \cap PendingFlags : f = g
    PROVE  Good(store(s, "STORE_STATE"), st)
BY TimeAssumption
   DEF Good, TimersRun, Announced, OnSaved, OccSaved, Has, Server, store, StoreFlags,
       PendingFlags, Idle

LEMMA EnableGood ==
    ASSUME NEW s \in Server, NEW st, Good(s, st)
    PROVE  /\ Good(store(ctrl_enable(s), "STORE_STATE"), st)
           /\ Good(store(ctrl_disable(s), "STORE_STATE"), st)
<1>1. ctrl_enable(s) \in Server /\ ctrl_disable(s) \in Server
  BY EnableTypes
<1>2. Good(store(ctrl_enable(s), "STORE_STATE"), st)
  <2> DEFINE e == ctrl_enable(s)
  <2>1. /\ e.state = "STANDBY" /\ e.timer # Idle
        /\ e.flags = s.flags \cup {"TRANSITION"}
        /\ e.action_delay = s.action_delay /\ e.store_timer = s.store_timer
    BY DEF ctrl_enable, reg_start, transition_start, Server, Idle
  <2>2. /\ e.flags \cap PendingFlags = s.flags \cap PendingFlags
        /\ e.flags \cap StoreFlags = s.flags \cap StoreFlags
    BY <2>1 DEF PendingFlags, StoreFlags
  <2> HIDE DEF e
  <2> QED BY <1>1, <2>1, <2>2, StoredGood DEF Good, TimersRun, Announced, e
<1>3. Good(store(ctrl_disable(s), "STORE_STATE"), st)
  <2> DEFINE e == ctrl_disable(s)
  <2>1. ~e.controlled /\ e.flags \subseteq {"OCC_MODE"}
    BY DEF ctrl_disable, Server
  <2>2. e.flags \cap PendingFlags = {} /\ e.flags \cap StoreFlags = {}
    BY <2>1 DEF PendingFlags, StoreFlags
  <2> HIDE DEF e
  <2> QED BY <1>1, <2>1, <2>2, StoredGood DEF Announced, e
<1> QED BY <1>2, <1>3

-----------------------------------------------------------------------------
(* The invariant.  Before light_ctrl_srv_start() nothing happens: no timer *)
(* of a delayed change runs and the server cannot be enabled.              *)

Asleep ==
    ~running => srv.state = "STANDBY" /\ srv.action_delay = Idle /\ ~Has(srv, "STARTED")

IInv == TypeOK /\ Good(srv, stored) /\ Asleep

LEMMA TypeServer == TypeOK => srv \in Server /\ srv.state \in States /\ srv.flags \subseteq Flags
BY DEF TypeOK, Server

LEMMA BootGood ==
    ASSUME NEW st \in Saves
    PROVE  /\ BootState(st) \in Server /\ Good(BootState(st), st)
           /\ BootState(st).state = "STANDBY" /\ BootState(st).action_delay = Idle
           /\ ~Has(BootState(st), "STARTED")
<1> DEFINE b == BootState(st)
           fl == (IF st.on THEN {"ON"} ELSE {})
                   \cup (IF st.occ_mode \/ OCCUPANCY_MODE THEN {"OCC_MODE"} ELSE {})
<1>1. fl \in SUBSET Flags /\ st.enabled \in BOOLEAN
  BY DEF Flags, Saves
<1>2. b = [flags |-> fl, state |-> "STANDBY", controlled |-> st.enabled, duration |-> 0,
           published |-> FALSE, timer |-> Idle, action_delay |-> Idle, store_timer |-> Idle,
           reg_timer |-> Idle]
  BY DEF BootState
<1>3. /\ fl \cap PendingFlags = {} /\ fl \cap StoreFlags = {}
      /\ "TRANSITION" \notin fl /\ "STARTED" \notin fl
      /\ ("ON" \in fl) = st.on
      /\ OCCUPANCY_MODE \/ ("OCC_MODE" \in fl) = st.occ_mode
  BY DEF PendingFlags, StoreFlags, Saves
<1> HIDE DEF b, fl
<1>4. b \in Server
  <2>1. 0 \in 0 .. UINT32_MAX /\ FALSE \in BOOLEAN /\ "STANDBY" \in States
    BY TimeAssumption DEF States
  <2> QED BY <1>1, <1>2, <2>1 DEF Server
<1>5. Good(b, st)
  BY <1>2, <1>3 DEF Good, TimersRun, Announced, OnSaved, OccSaved, Has
<1> QED BY <1>2, <1>3, <1>4, <1>5 DEF b, Has

LEMMA InvInit == Init => IInv
<1> SUFFICES ASSUME Init PROVE IInv
  OBVIOUS
<1>1. stored \in Saves
  BY DEF Init, Saves
<1>2. srv \in Server /\ Good(srv, stored) /\ Asleep
  BY <1>1, BootGood DEF Init, Asleep
<1> QED BY <1>1, <1>2, ConfigAssumption DEF IInv, TypeOK, Server, Saves, Init

(* A handler of a started server that leaves everything but srv alone. *)
LEMMA HandledInv ==
    ASSUME IInv, NEW s \in Server, Good(s, stored), Handled(s)
    PROVE  IInv'
BY DEF IInv, Handled, TypeOK, Server, Asleep, Good, TimersRun, Announced, OnSaved, OccSaved, Has

LEMMA TurnedGood ==
    ASSUME IInv, NEW value \in BOOLEAN, NEW t \in 0 .. UINT32_MAX, NEW u \in 0 .. UINT32_MAX
    PROVE  TurnedOnOff(value, t, u) \in Server /\ Good(TurnedOnOff(value, t, u), stored)
BY TypeServer, TurnOnType, TurnOnGood, TurnOffType, TurnOffGood DEF IInv, TurnedOnOff, TypeOK

LEMMA CommandsInv ==
    ASSUME IInv, NEW value \in BOOLEAN, Commands(value)
    PROVE  IInv'
<1>1. srv \in Server /\ Good(srv, stored) /\ cfg \in Configs
  BY TypeServer DEF IInv, TypeOK
<1>2. cfg.fade_on \in 0 .. UINT32_MAX /\ cfg.fade_standby_manual \in 0 .. UINT32_MAX
  BY <1>1, ConfigTypes
<1>3. ASSUME NEW time \in Times, NEW delay \in Delays
      PROVE  /\ delayed_set(srv, time, delay, value) \in Server
             /\ Good(delayed_set(srv, time, delay, value), stored)
  BY <1>1, DelayedSetType, DelayedSetGood, TimeAssumption
<1>4. CASE light_onoff_set(value)
  <2>1. ASSUME NEW time \in Times, NEW delay \in Delays,
               Handled(IF delay > 0 THEN delayed_set(srv, time, delay, value)
                       ELSE TurnedOnOff(value, time, time))
        PROVE  IInv'
    <3>1. time \in 0 .. UINT32_MAX
      BY TimeAssumption
    <3>2. TurnedOnOff(value, time, time) \in Server /\ Good(TurnedOnOff(value, time, time), stored)
      BY <3>1, TurnedGood
    <3> QED BY <1>3, <2>1, <3>2, HandledInv
  <2>2. CASE Handled(TurnedOnOff(value, cfg.fade_on, cfg.fade_standby_manual))
    BY <1>2, <2>2, TurnedGood, HandledInv
  <2> QED BY <1>4, <2>1, <2>2 DEF light_onoff_set
<1>5. CASE onoff_set(value)
  <2>1. PICK time \in Times, delay \in Delays :
            Handled(IF delay > 0 THEN delayed_set(srv, time, delay, value)
                    ELSE TurnedOnOff(value, IF time > 0 THEN time ELSE cfg.fade_on,
                                     IF time > 0 THEN time ELSE cfg.fade_standby_manual))
    BY <1>5 DEF onoff_set
  <2> DEFINE on == IF time > 0 THEN time ELSE cfg.fade_on
             off == IF time > 0 THEN time ELSE cfg.fade_standby_manual
  <2>2. on \in 0 .. UINT32_MAX /\ off \in 0 .. UINT32_MAX
    BY <1>2, TimeAssumption
  <2>3. TurnedOnOff(value, on, off) \in Server /\ Good(TurnedOnOff(value, on, off), stored)
    BY <2>2, TurnedGood
  <2> QED BY <1>3, <2>1, <2>3, HandledInv
<1>6. CASE IF value THEN bt_mesh_light_ctrl_srv_on ELSE bt_mesh_light_ctrl_srv_off
  <2>1. /\ turn_on(srv, cfg.fade_on) \in Server /\ Good(turn_on(srv, cfg.fade_on), stored)
        /\ turn_off(srv, cfg.fade_standby_manual) \in Server
        /\ Good(turn_off(srv, cfg.fade_standby_manual), stored)
    BY <1>1, <1>2, TurnOnType, TurnOnGood, TurnOffType, TurnOffGood
  <2> QED BY <1>6, <2>1, HandledInv DEF bt_mesh_light_ctrl_srv_on, bt_mesh_light_ctrl_srv_off
<1> QED BY <1>4, <1>5, <1>6 DEF Commands

LEMMA SensorInv ==
    ASSUME IInv, handle_sensor_status
    PROVE  IInv'
<1>1. srv \in Server /\ Good(srv, stored) /\ cfg \in Configs
  BY TypeServer DEF IInv, TypeOK
<1>2. cfg.fade_on \in 0 .. UINT32_MAX /\ cfg.occupancy_delay \in 0 .. UINT32_MAX
  BY <1>1, ConfigTypes
<1>3. turn_on(srv, cfg.fade_on) \in Server /\ Good(turn_on(srv, cfg.fade_on), stored)
  BY <1>1, <1>2, TurnOnType, TurnOnGood
<1>4. ASSUME NEW since \in 0 .. cfg.occupancy_delay + 1
      PROVE  /\ delayed_occupancy(srv, since) \in Server
             /\ Good(delayed_occupancy(srv, since), stored)
  BY <1>1, DelayedOccupancyType, DelayedOccupancyGood
<1> DEFINE heard == srv.state # "STANDBY" \/ Has(srv, "OCC_MODE")
<1>5. CASE Handled(IF heard THEN turn_on(srv, cfg.fade_on) ELSE srv)
  BY <1>1, <1>3, <1>5, HandledInv
<1>6. CASE \E since \in 0 .. cfg.occupancy_delay + 1 :
              Handled(IF heard THEN delayed_occupancy(srv, since) ELSE srv)
  BY <1>1, <1>4, <1>6, HandledInv
<1> QED BY <1>5, <1>6 DEF handle_sensor_status

(* A step that leaves the configuration, the saved state and the start     *)
(* alone, where nothing happens to a server that has not been started.     *)
LEMMA ServerStepInv ==
    ASSUME IInv, NEW s \in Server, Good(s, stored), srv' = s, UNCHANGED <<cfg, stored, running>>,
           ~running => s.state = "STANDBY" /\ s.action_delay = Idle /\ ~Has(s, "STARTED")
    PROVE  IInv'
BY DEF IInv, TypeOK, Server, Asleep, Good, TimersRun, Announced, OnSaved, OccSaved, Has

LEMMA ModeSetInv ==
    ASSUME IInv, mode_set
    PROVE  IInv'
<1>1. srv \in Server /\ Good(srv, stored)
  BY TypeServer DEF IInv
<1>2. CASE bt_mesh_light_ctrl_srv_enable
  <2> DEFINE s == [srv EXCEPT !.flags = @ \cup {"CTRL_SRV_MANUALLY_ENABLED"}]
  <2>1. s \in Server
    BY <1>1, FlagsType DEF Server, Flags
  <2>2. Good(s, stored)
    BY <1>1
       DEF Good, TimersRun, Announced, OnSaved, OccSaved, Has, Server, StoreFlags, PendingFlags
  <2>3. s.state = srv.state /\ s.action_delay = srv.action_delay
        /\ (Has(s, "STARTED") <=> Has(srv, "STARTED"))
    BY <1>1 DEF Server, Has
  <2> HIDE DEF s
  <2>4. Enabled(s) \in Server /\ Good(Enabled(s), stored)
    BY <2>1, <2>2, EnableTypes, EnableGood, StoreType DEF Enabled, StoreFlags
  <2>5. srv' = Enabled(s) /\ UNCHANGED <<cfg, stored, running>>
    BY <1>2 DEF bt_mesh_light_ctrl_srv_enable, s
  <2>6. ~running => Enabled(s) = s
    BY <2>3 DEF IInv, Asleep, Enabled
  <2> QED BY <2>3, <2>4, <2>5, <2>6, ServerStepInv DEF IInv, Asleep
<1>3. CASE bt_mesh_light_ctrl_srv_disable
  <2> DEFINE s == [srv EXCEPT !.flags = @ \ {"CTRL_SRV_MANUALLY_ENABLED"}]
  <2>1. s \in Server
    BY <1>1, FlagsType DEF Server
  <2>2. Good(s, stored)
    BY <1>1
       DEF Good, TimersRun, Announced, OnSaved, OccSaved, Has, Server, StoreFlags, PendingFlags
  <2>3. s.state = srv.state /\ s.action_delay = srv.action_delay
        /\ (Has(s, "STARTED") <=> Has(srv, "STARTED"))
    BY <1>1 DEF Server, Has
  <2> HIDE DEF s
  <2>4. Disabled(s) \in Server /\ Good(Disabled(s), stored)
    BY <2>1, <2>2, EnableTypes, EnableGood, StoreType DEF Disabled, StoreFlags
  <2>5. srv' = Disabled(s) /\ UNCHANGED <<cfg, stored, running>>
    BY <1>3 DEF bt_mesh_light_ctrl_srv_disable, s
  <2>6. LET d == store(ctrl_disable(s), "STORE_STATE")
        IN  d.state = "STANDBY" /\ d.action_delay = Idle /\ ~Has(d, "STARTED")
    BY <2>1 DEF store, ctrl_disable, Has, Server
  <2>7. ~running => /\ Disabled(s).state = "STANDBY" /\ Disabled(s).action_delay = Idle
                    /\ ~Has(Disabled(s), "STARTED")
    BY <2>3, <2>6 DEF IInv, Asleep, Disabled
  <2> QED BY <2>4, <2>5, <2>7, ServerStepInv
<1> QED BY <1>2, <1>3 DEF mode_set

LEMMA ApplicationInv ==
    ASSUME IInv, Application
    PROVE  IInv'
<1>1. srv \in Server /\ Good(srv, stored)
  BY TypeServer DEF IInv
<1>2. CASE om_set
  <2>1. PICK mode \in BOOLEAN :
            Handled(store([srv EXCEPT !.flags = IF mode THEN @ \cup {"OCC_MODE"}
                                                        ELSE @ \ {"OCC_MODE"}], "STORE_STATE"))
    BY <1>2 DEF om_set
  <2> DEFINE flags == IF mode THEN srv.flags \cup {"OCC_MODE"} ELSE srv.flags \ {"OCC_MODE"}
             s == [srv EXCEPT !.flags = flags]
  <2>2. s \in Server
    BY <1>1, FlagsType DEF Server, Flags
  <2>3. /\ s.state = srv.state /\ s.controlled = srv.controlled /\ s.published = srv.published
        /\ s.timer = srv.timer
        /\ s.action_delay = srv.action_delay
        /\ s.store_timer = srv.store_timer
        /\ \A f \in Flags \ {"OCC_MODE"} : Has(s, f) <=> Has(srv, f)
    BY <1>1 DEF Server, Has
  <2>4. /\ s.flags \cap PendingFlags = srv.flags \cap PendingFlags
        /\ s.flags \cap StoreFlags = srv.flags \cap StoreFlags
        /\ Has(s, "TRANSITION") <=> Has(srv, "TRANSITION")
        /\ Has(s, "ON") <=> Has(srv, "ON")
    BY <2>3 DEF Has, PendingFlags, StoreFlags, Flags
  <2> HIDE DEF s
  <2>5. Good(store(s, "STORE_STATE"), stored)
    BY <1>1, <2>2, <2>3, <2>4, StoredGood DEF Good, TimersRun, Announced
  <2>6. store(s, "STORE_STATE") \in Server
    BY <2>2, StoreType DEF StoreFlags
  <2> QED BY <2>1, <2>5, <2>6, HandledInv DEF s
<1>3. CASE prop_set
  BY <1>3 DEF prop_set, IInv, TypeOK, Asleep, Good, TimersRun, Announced, OnSaved, OccSaved, Has
<1>4. CASE lightness_set
  <2> DEFINE s == [srv EXCEPT !.controlled = FALSE]
  <2>1. s \in Server
    BY <1>1 DEF Server
  <2>2. Good(s, stored)
    BY <1>1 DEF Good, TimersRun, Announced, OnSaved, OccSaved, Has, Server
  <2> QED BY <1>4, <2>1, <2>2, HandledInv DEF lightness_set
<1> QED BY <1>2, <1>3, <1>4, ModeSetInv DEF Application

LEMMA TimeoutInv ==
    ASSUME IInv, timeout
    PROVE  IInv'
<1> DEFINE s == [srv EXCEPT !.timer = Idle]
           done == [s EXCEPT !.flags = @ \ {"TRANSITION"}]
           shown == IF s.duration > 0 THEN onoff_pub(done, s.state) ELSE done
<1>1. srv \in Server /\ Good(srv, stored) /\ cfg \in Configs
  BY TypeServer DEF IInv, TypeOK
<1>2. s \in Server /\ done \in Server /\ s.state \in States
  BY <1>1 DEF Server
<1>3. shown \in Server
  BY <1>2, PubType
<1>4. UNCHANGED <<cfg, stored, running>>
  BY DEF timeout
<1>5. CASE Has(s, "TRANSITION")
  <2>1. srv' = AfterFade(shown)
    BY <1>5 DEF timeout
  <2>2. /\ shown.state = srv.state /\ shown.controlled = srv.controlled
        /\ shown.flags = srv.flags \ {"TRANSITION"}
        /\ shown.action_delay = srv.action_delay /\ shown.store_timer = srv.store_timer
        /\ shown.state # "STANDBY" /\ srv.published => shown.published
    BY <1>1 DEF Server, onoff_pub, state_is_on
  <2> HIDE DEF shown
  <2>3. ASSUME NEW time \in {Idle} \cup 0 .. UINT32_MAX, shown.state # "STANDBY" => time # Idle
        PROVE  /\ [shown EXCEPT !.timer = time] \in Server
               /\ Good([shown EXCEPT !.timer = time], stored)
    <3>1. [shown EXCEPT !.timer = time] \in Server
      BY <1>3, TimerType
    <3>2. /\ shown.flags \cap PendingFlags = srv.flags \cap PendingFlags
          /\ shown.flags \cap StoreFlags = srv.flags \cap StoreFlags
          /\ "STORE_STATE" \in shown.flags <=> "STORE_STATE" \in srv.flags
          /\ Has(shown, "ON") <=> Has(srv, "ON")
          /\ Has(shown, "OCC_MODE") <=> Has(srv, "OCC_MODE")
      BY <2>2 DEF PendingFlags, StoreFlags, Has
    <3> QED BY <1>1, <1>3, <2>2, <2>3, <3>1, <3>2
            DEF Good, TimersRun, Announced, OnSaved, OccSaved, Has, Server
  <2>4. shown.timer = Idle /\ shown = [shown EXCEPT !.timer = Idle]
    BY <1>1, <1>3 DEF shown, onoff_pub, Server
  <2>5. /\ cfg.on \in 0 .. UINT32_MAX /\ cfg.prolong \in 0 .. UINT32_MAX
        /\ UInt32(TIME_MANUAL - cfg.fade_standby_manual) \in 0 .. UINT32_MAX
    BY <1>1, ConfigTypes, Wraps, TimeAssumption
  <2>6. PICK time \in {Idle} \cup 0 .. UINT32_MAX :
            /\ srv' = [shown EXCEPT !.timer = time]
            /\ shown.state # "STANDBY" => time # Idle
    <3>1. CASE shown.state = "ON"
      BY <2>1, <2>5, <3>1 DEF AfterFade, Idle
    <3>2. CASE shown.state = "PROLONG"
      BY <2>1, <2>5, <3>2 DEF AfterFade, Idle
    <3>3. CASE shown.state = "STANDBY"
      BY <2>1, <2>4, <2>5, <3>3 DEF AfterFade
    <3> QED BY <1>2, <2>2, <3>1, <3>2, <3>3 DEF States
  <2>7. srv' \in Server /\ Good(srv', stored)
    BY <2>3, <2>6
  <2>8. /\ srv'.state = srv.state /\ srv'.action_delay = srv.action_delay
        /\ (Has(srv, "STARTED") <=> Has(srv', "STARTED"))
    BY <1>3, <2>2, <2>6 DEF Server, Has
  <2> QED BY <1>4, <2>7, <2>8, ServerStepInv DEF IInv, Asleep
<1>6. CASE ~Has(s, "TRANSITION")
  <2>1. CASE s.state = "ON"
    <3>1. srv' = prolong(s) /\ srv.state = "ON"
      BY <1>1, <1>6, <2>1 DEF timeout, Server
    <3>2. transition_start(s, "PROLONG", cfg.fade_prolong) \in Server
      BY <1>1, <1>2, TransitionType, ConfigTypes DEF States
    <3>3. srv' \in Server
      BY <1>2, <3>1, <3>2 DEF prolong
    <3>4. cfg.fade_prolong # Idle
      BY <1>1, ConfigTypes DEF Idle
    <3>5. Good(srv', stored)
      BY <1>1, <3>1, <3>4
         DEF prolong, transition_start, Good, TimersRun, Announced, OnSaved, OccSaved, Has, Server,
             PendingFlags, StoreFlags
    <3> QED BY <1>4, <3>1, <3>3, <3>5, ServerStepInv DEF IInv, Asleep
  <2>2. CASE s.state = "PROLONG"
    <3>1. srv' = turn_off_auto(s) /\ srv.state = "PROLONG"
      BY <1>1, <1>6, <2>2 DEF timeout, Server
    <3>2. cfg.fade_standby_auto \in 0 .. UINT32_MAX
      BY <1>1, ConfigTypes
    <3>3. ToStandby(s, cfg.fade_standby_auto) \in Server
      BY <1>2, <3>2, StandbyType
    <3>4. /\ ToStandby(s, cfg.fade_standby_auto) = ToStandby(srv, cfg.fade_standby_auto)
          /\ ~s.controlled => Good(s, stored)
      BY <1>1
         DEF ToStandby, transition_start, Good, TimersRun, Announced, OnSaved, OccSaved, Has, Server
    <3>5. Good(ToStandby(s, cfg.fade_standby_auto), stored)
      BY <1>1, <3>2, <3>4, StandbyGood
    <3>6. srv' \in Server /\ Good(srv', stored)
      BY <1>2, <2>2, <3>1, <3>3, <3>4, <3>5 DEF turn_off_auto
    <3> QED BY <1>4, <3>1, <3>6, ServerStepInv DEF IInv, Asleep
  <2>3. CASE s.state = "STANDBY"
    <3>1. srv' = [s EXCEPT !.flags = @ \ {"MANUAL"}]
      BY <1>6, <2>3 DEF timeout
    <3>2. srv' \in Server
      BY <1>2, <3>1 DEF Server
    <3>3. Good(srv', stored)
      BY <1>1, <1>6, <2>3, <3>1
         DEF Good, TimersRun, Announced, OnSaved, OccSaved, Has, Server, PendingFlags, StoreFlags
    <3>4. /\ srv'.state = srv.state /\ srv'.action_delay = srv.action_delay
          /\ (Has(srv, "STARTED") <=> Has(srv', "STARTED"))
      BY <1>1, <3>1 DEF Server, Has
    <3> QED BY <1>4, <3>2, <3>3, <3>4, ServerStepInv DEF IInv, Asleep
  <2> QED BY <1>2, <2>1, <2>2, <2>3 DEF States
<1> QED BY <1>5, <1>6

LEMMA DelayedActionInv ==
    ASSUME IInv, delayed_action_timeout
    PROVE  IInv'
<1> DEFINE s == [srv EXCEPT !.action_delay = Idle]
           taken(flag) == [s EXCEPT !.flags = @ \ {flag}]
<1>1. srv \in Server /\ Good(srv, stored) /\ cfg \in Configs /\ cfg.fade_on \in 0 .. UINT32_MAX
  BY TypeServer, ConfigTypes DEF IInv, TypeOK
<1>2. s \in Server /\ s.flags = srv.flags /\ s.duration \in 0 .. UINT32_MAX
  BY <1>1 DEF Server
<1>3. running
  BY DEF delayed_action_timeout, Expired, IInv, Asleep, Idle
<1>4. UNCHANGED <<cfg, stored, running>>
  BY DEF delayed_action_timeout
<1>5. ASSUME NEW flag \in PendingFlags
      PROVE  taken(flag) \in Server
  BY <1>2, FlagsType DEF Server
<1>6. ASSUME NEW flag \in PendingFlags, srv.flags \cap PendingFlags \subseteq {flag}
      PROVE  Good(taken(flag), stored)
  <2>1. taken(flag).flags \cap PendingFlags = {}
    BY <1>2, <1>5, <1>6 DEF Server
  <2>2. /\ taken(flag).flags \cap StoreFlags = srv.flags \cap StoreFlags
        /\ \A f \in {"TRANSITION", "ON", "OCC_MODE", "STORE_STATE"} :
              Has(taken(flag), f) <=> Has(srv, f)
    BY <1>2, <1>6 DEF Server, StoreFlags, PendingFlags, Has
  <2> QED BY <1>1, <2>1, <2>2 DEF Good, TimersRun, Announced, OnSaved, OccSaved, Has, Server
<1>7. ASSUME NEW flag \in PendingFlags, flag \in srv.flags
      PROVE  srv.flags \cap PendingFlags \subseteq {flag}
  BY <1>1, <1>7 DEF Good, TimersRun
<1> HIDE DEF s, taken
<1>8. CASE Has(s, "ON_PENDING")
  <2>1. srv' = turn_on(taken("ON_PENDING"), s.duration)
    BY <1>8 DEF delayed_action_timeout, s, taken
  <2>2. taken("ON_PENDING") \in Server /\ Good(taken("ON_PENDING"), stored)
    BY <1>2, <1>5, <1>6, <1>7, <1>8 DEF PendingFlags, Has
  <2>3. srv' \in Server /\ Good(srv', stored)
    BY <1>1, <1>2, <2>1, <2>2, TurnOnType, TurnOnGood
  <2> QED BY <1>3, <1>4, <2>3, ServerStepInv
<1>9. CASE ~Has(s, "ON_PENDING") /\ Has(s, "OFF_PENDING")
  <2>1. srv' = turn_off(taken("OFF_PENDING"), s.duration)
    BY <1>9 DEF delayed_action_timeout, s, taken
  <2>2. taken("OFF_PENDING") \in Server /\ Good(taken("OFF_PENDING"), stored)
    BY <1>2, <1>5, <1>6, <1>7, <1>9 DEF PendingFlags, Has
  <2>3. srv' \in Server /\ Good(srv', stored)
    BY <1>1, <1>2, <2>1, <2>2, TurnOffType, TurnOffGood
  <2> QED BY <1>3, <1>4, <2>3, ServerStepInv
<1>10. CASE ~Has(s, "ON_PENDING") /\ ~Has(s, "OFF_PENDING")
  <2>1. srv.flags \cap PendingFlags \subseteq {"OCC_PENDING"}
    BY <1>2, <1>10 DEF PendingFlags, Has
  <2>2. taken("OCC_PENDING") \in Server /\ Good(taken("OCC_PENDING"), stored)
    BY <1>5, <1>6, <2>1 DEF PendingFlags
  <2>3. \/ srv' = turn_on(taken("OCC_PENDING"), cfg.fade_on)
        \/ srv' = taken("OCC_PENDING")
    BY <1>10 DEF delayed_action_timeout, s, taken
  <2>4. srv' \in Server /\ Good(srv', stored)
    BY <1>1, <2>2, <2>3, TurnOnType, TurnOnGood
  <2> QED BY <1>3, <1>4, <2>4, ServerStepInv
<1> QED BY <1>8, <1>9, <1>10

LEMMA StoreTimeoutInv ==
    ASSUME IInv, store_timeout
    PROVE  IInv'
<1> DEFINE s == [srv EXCEPT !.store_timer = Idle, !.flags = @ \ StoreFlags]
<1>1. srv \in Server /\ Good(srv, stored)
  BY TypeServer DEF IInv
<1>2. s \in Server
  BY <1>1 DEF Server
<1>3. srv' = s /\ UNCHANGED <<cfg, running>>
  BY DEF store_timeout
<1>4. /\ stored' \in Saves
      /\ Has(srv, "STORE_STATE") =>
            \/ stored'.failed
            \/ stored'.on = Has(srv, "ON") /\ stored'.occ_mode = Has(srv, "OCC_MODE")
      /\ ~Has(srv, "STORE_STATE") => stored' = stored
  <2>1. srv.controlled \in BOOLEAN /\ Has(srv, "ON") \in BOOLEAN /\ Has(srv, "OCC_MODE") \in BOOLEAN
    BY <1>1 DEF Server, Has
  <2>2. stored \in Saves
    BY DEF IInv, TypeOK, Saves
  <2>3. CASE Has(srv, "STORE_STATE")
    <3>1. stored' \in model_data_store
      BY <2>3 DEF store_timeout
    <3> DEFINE new == [enabled |-> srv.controlled, on |-> Has(srv, "ON"),
                       occ_mode |-> Has(srv, "OCC_MODE"), failed |-> FALSE]
               old == [stored EXCEPT !.failed = TRUE]
    <3>2. stored' = new \/ stored' = old
      BY <3>1 DEF model_data_store
    <3>3. /\ new \in Saves /\ new.on = Has(srv, "ON") /\ new.occ_mode = Has(srv, "OCC_MODE")
          /\ old \in Saves /\ old.failed
      BY <2>1, <2>2 DEF Saves
    <3> HIDE DEF new, old
    <3> QED BY <2>3, <3>2, <3>3
  <2>4. CASE ~Has(srv, "STORE_STATE")
    BY <2>2, <2>4 DEF store_timeout
  <2> QED BY <2>3, <2>4
<1>5. /\ s.flags \cap PendingFlags = srv.flags \cap PendingFlags
      /\ s.flags \cap StoreFlags = {}
      /\ \A f \in {"TRANSITION", "ON", "OCC_MODE", "STARTED"} : Has(s, f) <=> Has(srv, f)
      /\ s.state = srv.state /\ s.controlled = srv.controlled /\ s.published = srv.published
      /\ s.timer = srv.timer /\ s.action_delay = srv.action_delay
  BY <1>1 DEF Server, PendingFlags, StoreFlags, Has
<1> HIDE DEF s
<1>6. OnSaved(s, stored') /\ OccSaved(s, stored')
  <2>1. Has(s, "ON") = Has(srv, "ON") /\ Has(s, "OCC_MODE") = Has(srv, "OCC_MODE")
    BY <1>5 DEF Has
  <2>2. CASE Has(srv, "STORE_STATE")
    BY <1>4, <2>1, <2>2 DEF OnSaved, OccSaved
  <2>3. CASE ~Has(srv, "STORE_STATE")
    BY <1>1, <1>4, <2>1, <2>3 DEF OnSaved, OccSaved, Good, Has
  <2> QED BY <2>2, <2>3
<1>7. TimersRun(s) /\ Announced(s)
  BY <1>1, <1>5 DEF Good, TimersRun, Announced
<1>8. Good(srv, stored)'
  BY <1>3, <1>6, <1>7 DEF Good, TimersRun, Announced, OnSaved, OccSaved, Has
<1>9. Asleep'
  BY <1>3, <1>5 DEF IInv, Asleep, Has
<1> QED BY <1>2, <1>3, <1>4, <1>8, <1>9 DEF IInv, TypeOK, Server, Saves

LEMMA RegStepInv ==
    ASSUME IInv, reg_step
    PROVE  IInv'
<1>1. srv \in Server /\ Good(srv, stored)
  BY TypeServer DEF IInv
<1>2. PICK time \in {Idle, REG_INT} : srv' = [srv EXCEPT !.reg_timer = time]
  BY <1>1 DEF reg_step, reg_start, Server
<1>3. srv' \in Server
  BY <1>1, <1>2, TimeAssumption DEF Server
<1>4. Good(srv', stored)
  BY <1>1, <1>2 DEF Good, TimersRun, Announced, OnSaved, OccSaved, Has, Server
<1>5. /\ srv'.state = srv.state /\ srv'.action_delay = srv.action_delay
      /\ (Has(srv, "STARTED") <=> Has(srv', "STARTED"))
  BY <1>1, <1>2 DEF Server, Has
<1>6. UNCHANGED <<cfg, stored, running>>
  BY DEF reg_step
<1> QED BY <1>3, <1>4, <1>5, <1>6, ServerStepInv DEF IInv, Asleep

LEMMA PassedType ==
    ASSUME NEW n \in Nat, NEW time \in {Idle} \cup 0 .. n
    PROVE  /\ Passed(time) \in {Idle} \cup 0 .. n
           /\ Passed(time) = Idle <=> time = Idle
BY DEF Passed, Idle

LEMMA TickInv ==
    ASSUME IInv, Tick
    PROVE  IInv'
<1>1. srv \in Server /\ Good(srv, stored)
  BY TypeServer DEF IInv
<1> DEFINE s == [srv EXCEPT !.timer = Passed(@), !.action_delay = Passed(@),
                            !.store_timer = Passed(@), !.reg_timer = Passed(@)]
<1>2. /\ Passed(srv.timer) \in {Idle} \cup 0 .. UINT32_MAX
      /\ Passed(srv.store_timer) \in {Idle} \cup 0 .. STORE_TIMEOUT
      /\ Passed(srv.reg_timer) \in {Idle} \cup 0 .. REG_INT
      /\ Passed(srv.timer) = Idle <=> srv.timer = Idle
      /\ Passed(srv.store_timer) = Idle <=> srv.store_timer = Idle
  BY <1>1, PassedType, TimeAssumption DEF Server
<1>3. /\ Passed(srv.action_delay) \in {Idle} \cup Nat
      /\ Passed(srv.action_delay) = Idle <=> srv.action_delay = Idle
  BY <1>1 DEF Server, Passed, Idle
<1>4. s \in Server
  BY <1>1, <1>2, <1>3 DEF Server
<1>5. /\ s.flags = srv.flags /\ s.state = srv.state /\ s.controlled = srv.controlled
      /\ s.published = srv.published
      /\ s.timer = Idle <=> srv.timer = Idle
      /\ s.action_delay = Idle <=> srv.action_delay = Idle
      /\ s.store_timer = Idle <=> srv.store_timer = Idle
  BY <1>1, <1>2, <1>3 DEF Server
<1>6. srv' = s /\ UNCHANGED <<cfg, stored, running>>
  BY DEF Tick
<1> HIDE DEF s
<1>7. Good(s, stored)
  BY <1>1, <1>5 DEF Good, TimersRun, Announced, OnSaved, OccSaved, Has
<1> QED BY <1>4, <1>5, <1>6, <1>7, ServerStepInv DEF IInv, Asleep, Has

LEMMA StartInv ==
    ASSUME IInv, light_ctrl_srv_start
    PROVE  IInv'
<1> DEFINE s == [srv EXCEPT !.flags = @ \cup {"STARTED"}]
<1>1. srv \in Server /\ Good(srv, stored) /\ cfg \in Configs /\ cfg.fade_on \in 0 .. UINT32_MAX
  BY TypeServer, ConfigTypes DEF IInv, TypeOK
<1>2. s \in Server
  BY <1>1, FlagsType DEF Server, Flags
<1>3. Good(s, stored)
  BY <1>1
     DEF Good, TimersRun, Announced, OnSaved, OccSaved, Has, Server, StoreFlags, PendingFlags
<1> HIDE DEF s
<1>4. reg_start(s) \in Server /\ Good(reg_start(s), stored)
  BY <1>2, <1>3, EnableTypes
     DEF reg_start, Good, TimersRun, Announced, OnSaved, OccSaved, Has, Server
<1>5. Restored(s) \in Server /\ Good(Restored(s), stored)
  BY <1>1, <1>2, <1>3, <1>4, TurnOnType, TurnOnGood DEF Restored
<1>6. /\ store(ctrl_enable(s), "STORE_STATE") \in Server
      /\ store(ctrl_disable(s), "STORE_STATE") \in Server
      /\ Good(store(ctrl_enable(s), "STORE_STATE"), stored)
      /\ Good(store(ctrl_disable(s), "STORE_STATE"), stored)
  BY <1>2, <1>3, EnableTypes, EnableGood, StoreType DEF StoreFlags
<1>7. /\ srv' \in {Restored(s), store(ctrl_enable(s), "STORE_STATE"),
                   store(ctrl_disable(s), "STORE_STATE")}
      /\ running' = TRUE /\ UNCHANGED <<cfg, stored>>
  BY DEF light_ctrl_srv_start, s
<1>8. srv' \in Server /\ Good(srv', stored)
  BY <1>5, <1>6, <1>7
<1> QED BY <1>7, <1>8
        DEF IInv, TypeOK, Server, Asleep, Good, TimersRun, Announced, OnSaved, OccSaved, Has

LEMMA RebootInv ==
    ASSUME IInv, Reboot
    PROVE  IInv'
<1> DEFINE st == [stored EXCEPT !.failed = FALSE]
<1>1. stored' = st /\ running' = FALSE /\ cfg' = DefaultConfig /\ srv' = BootState(stored)
  BY DEF Reboot
<1>2. /\ st \in Saves /\ st.enabled = stored.enabled
      /\ st.on = stored.on /\ st.occ_mode = stored.occ_mode
  BY DEF IInv, TypeOK, Saves
<1>3. srv' = BootState(st)
  BY <1>1, <1>2 DEF BootState
<1> HIDE DEF st
<1>4. /\ srv' \in Server /\ Good(srv', st)
      /\ srv'.state = "STANDBY" /\ srv'.action_delay = Idle /\ ~Has(srv', "STARTED")
  BY <1>2, <1>3, BootGood
<1> QED BY <1>1, <1>2, <1>4, ConfigAssumption
        DEF IInv, TypeOK, Server, Saves, Asleep, Good, TimersRun, Announced, OnSaved, OccSaved, Has

LEMMA InvNext == IInv /\ [Next]_vars => IInv'
<1> SUFFICES ASSUME IInv, [Next]_vars PROVE IInv'
  OBVIOUS
<1>1. CASE OnEvents \/ Commands(FALSE)
  BY <1>1, CommandsInv, SensorInv DEF OnEvents
<1>2. CASE Timeouts
  BY <1>2, TimeoutInv, DelayedActionInv, StoreTimeoutInv, RegStepInv DEF Timeouts
<1>3. CASE UNCHANGED vars
  BY <1>3 DEF vars, IInv, TypeOK, Asleep, Good, TimersRun, Announced, OnSaved, OccSaved, Has
<1> QED BY <1>1, <1>2, <1>3, ApplicationInv, TickInv, StartInv, RebootInv DEF Next

LEMMA InvHolds == Spec => []IInv
BY InvInit, InvNext, PTL DEF Spec

(* Flags, states and timers of the server keep their types: every delay    *)
(* that is submitted is one a uint32_t holds, in every configuration, where *)
(* the sum in turn_on() or the difference in timeout() wraps too.          *)
THEOREM TypeCorrect == Spec => []TypeOK
<1>1. IInv => TypeOK
  BY DEF IInv
<1> QED BY <1>1, InvHolds, PTL

(* Nothing the server waits for is without the timer that ends it, for     *)
(* every configuration and every transition time and delay.                *)
THEOREM TimersWait == Spec => []WaitsForTimer
<1>1. IInv => WaitsForTimer
  BY DEF IInv, Good, TimersRun, WaitsForTimer
<1> QED BY <1>1, InvHolds, PTL

(* A light that the server holds on was announced as on. *)
THEOREM LitPublished == Spec => []LitIsPublished
<1>1. IInv => LitIsPublished
  BY DEF IInv, Good, Announced, LitIsPublished
<1> QED BY <1>1, InvHolds, PTL

(* What a power cut would restore is out of date only while a save is      *)
(* under way or after one that failed (bt_mesh_model_data_store() is not   *)
(* tried again), where the occupancy mode is off by default.  With the     *)
(* default on this is true of the On state only, OnStateSaved:             *)
(* settings_set() cannot restore that the mode was turned off.             *)
THEOREM Saved == ~OCCUPANCY_MODE => (Spec => []ChangesSaved)
<1> SUFFICES ASSUME ~OCCUPANCY_MODE PROVE Spec => []ChangesSaved
  OBVIOUS
<1>1. IInv => ChangesSaved
  BY DEF IInv, TypeOK, Good, OnSaved, OccSaved, ChangesSaved, Has
<1> QED BY <1>1, InvHolds, PTL

(* The On state that settings_set() restores after a power cut is the last *)
(* one, or store_timeout() is still to run, or its last save failed, for   *)
(* every default mode.                                                     *)
THEOREM OnStateSaved ==
    Spec => [](Has(srv, "STORE_STATE") \/ stored.failed \/ Has(srv, "ON") = stored.on)
<1>1. IInv => Has(srv, "STORE_STATE") \/ stored.failed \/ Has(srv, "ON") = stored.on
  BY DEF IInv, Good, OnSaved, Has
<1> QED BY <1>1, InvHolds, PTL

-----------------------------------------------------------------------------
(* Steps. *)

(* A sensor turns a light in Standby on only while the occupancy mode is   *)
(* on, also when its delay ends after the mode was changed: the change     *)
(* that is pending is the only one (TimersRun), so it is the sensor's.     *)
THEOREM ModeObeyed == Spec => SensorsObeyMode
<1> DEFINE A == srv.state = "STANDBY" /\ srv'.state # "STANDBY"
                /\ (handle_sensor_status \/ (delayed_action_timeout /\ Has(srv, "OCC_PENDING")))
                   => Has(srv, "OCC_MODE")
<1>1. IInv /\ [Next]_vars => [A]_vars
  <2> SUFFICES ASSUME IInv, srv.state = "STANDBY", srv'.state # "STANDBY",
                      handle_sensor_status \/ (delayed_action_timeout /\ Has(srv, "OCC_PENDING"))
               PROVE  Has(srv, "OCC_MODE")
    OBVIOUS
  <2>1. CASE handle_sensor_status
    BY <2>1 DEF handle_sensor_status, Handled
  <2>2. CASE delayed_action_timeout /\ Has(srv, "OCC_PENDING")
    <3> DEFINE s == [srv EXCEPT !.action_delay = Idle]
               occ == [s EXCEPT !.flags = @ \ {"OCC_PENDING"}]
    <3>1. /\ s.flags = srv.flags /\ s.state = "STANDBY"
          /\ occ.state = "STANDBY"
      BY TypeServer DEF IInv, Server
    <3>2. ~Has(s, "ON_PENDING") /\ ~Has(s, "OFF_PENDING") /\ Has(s, "OCC_PENDING")
      BY <2>2, <3>1 DEF IInv, Good, TimersRun, Has, PendingFlags
    <3>3. srv' = IF OccupancyAllowed(s) THEN turn_on(occ, cfg.fade_on) ELSE occ
      BY <2>2, <3>2 DEF delayed_action_timeout
    <3>4. OccupancyAllowed(s)
      BY <3>1, <3>3
    <3> QED BY <3>1, <3>4 DEF OccupancyAllowed, Has
  <2> QED BY <2>1, <2>2
<1> QED BY <1>1, InvHolds, PTL DEF Spec, SensorsObeyMode

(* The server as a state of LightMachine. *)
LightOf(s) ==
    CASE s.state = "STANDBY" -> IF Has(s, "TRANSITION") THEN "FadeStandby" ELSE "Standby"
      [] s.state = "ON"      -> IF Has(s, "TRANSITION") THEN "FadeOn" ELSE "On"
      [] s.state = "PROLONG" -> IF Has(s, "TRANSITION") THEN "FadeProlong" ELSE "Prolong"

Shown(up, s) == IF ~up \/ ~s.controlled THEN "Disabled" ELSE LightOf(s)

(* A step of LightMachine, or none, from one of its states to another. *)
Moves(a, b) ==
    \/ a = b
    \/ a = "Disabled" /\ b \in {"FadeStandby", "Standby", "FadeOn"}
    \/ a # "Disabled" /\ b = "Disabled"
    \/ a \in {"Standby", "FadeStandby", "FadeProlong", "Prolong"} /\ b = "FadeOn"
    \/ a \in {"FadeOn", "On", "FadeProlong", "Prolong"} /\ b = "FadeStandby"
    \/ <<a, b>> \in {<<"FadeOn", "On">>, <<"On", "FadeProlong">>, <<"FadeProlong", "Prolong">>,
                     <<"FadeStandby", "Standby">>}

LEMMA SameLight ==
    ASSUME NEW up, NEW s \in Server, NEW r, r.state = s.state, r.controlled = s.controlled,
           Has(r, "TRANSITION") <=> Has(s, "TRANSITION")
    PROVE  Shown(up, r) = Shown(up, s)
<1>1. LightOf(r) = LightOf(s)
  BY DEF LightOf, Server, States
<1>2. ~r.controlled <=> ~s.controlled
  OBVIOUS
<1> QED BY <1>1, <1>2, Zenon DEF Shown

LEMMA TurnOnMoves ==
    ASSUME NEW up, NEW s \in Server, NEW fade_time
    PROVE  Moves(Shown(up, s), Shown(up, turn_on(s, fade_time)))
<1> DEFINE r == turn_on(s, fade_time)
<1>1. CASE ~s.controlled \/ s.state = "ON"
  <2>1. r.state = s.state /\ r.controlled = s.controlled /\ r.flags = s.flags
    BY <1>1 DEF turn_on, Server
  <2> QED BY <2>1, SameLight DEF Moves, Has
<1>2. CASE s.controlled /\ s.state # "ON"
  <2>1. r.state = "ON" /\ r.controlled /\ Has(r, "TRANSITION")
    BY <1>2 DEF turn_on, onoff_pub, transition_start, store, Server, Has
  <2>2. s.state \in {"STANDBY", "PROLONG"}
    BY <1>2 DEF Server, States
  <2>3. Shown(up, r) = IF up THEN "FadeOn" ELSE "Disabled"
    BY <2>1 DEF Shown, LightOf
  <2>4. Shown(up, s) \in IF up THEN {"Standby", "FadeStandby", "FadeProlong", "Prolong"}
                               ELSE {"Disabled"}
    BY <1>2, <2>2 DEF Shown, LightOf
  <2> QED BY <2>3, <2>4 DEF Moves
<1> QED BY <1>1, <1>2

LEMMA StandbyMoves ==
    ASSUME NEW up, NEW s \in Server, NEW fade_time, s.controlled, s.state # "STANDBY"
    PROVE  Moves(Shown(up, s), Shown(up, ToStandby(s, fade_time)))
<1> DEFINE r == ToStandby(s, fade_time)
<1>1. r.state = "STANDBY" /\ r.controlled /\ Has(r, "TRANSITION")
  BY DEF ToStandby, onoff_pub, transition_start, store, Server, Has
<1>2. s.state \in {"ON", "PROLONG"}
  BY DEF Server, States
<1>3. Shown(up, r) = IF up THEN "FadeStandby" ELSE "Disabled"
  BY <1>1 DEF Shown, LightOf
<1>4. Shown(up, s) \in IF up THEN {"FadeOn", "On", "FadeProlong", "Prolong"} ELSE {"Disabled"}
  BY <1>2 DEF Shown, LightOf
<1> QED BY <1>3, <1>4 DEF Moves

LEMMA TurnOffMoves ==
    ASSUME NEW up, NEW s \in Server, NEW fade_time \in 0 .. UINT32_MAX
    PROVE  Moves(Shown(up, s), Shown(up, turn_off(s, fade_time)))
<1> DEFINE manual == [s EXCEPT !.flags = @ \cup {"MANUAL"}]
           r == turn_off(s, fade_time)
<1>1. manual \in Server
  BY FlagsType DEF Server, Flags
<1>2. /\ manual.state = s.state /\ manual.controlled = s.controlled
      /\ Has(manual, "TRANSITION") <=> Has(s, "TRANSITION")
  BY DEF Server, Has
<1>3. Shown(up, manual) = Shown(up, s)
  BY <1>2, SameLight
<1>4. CASE ~s.controlled
  BY <1>4 DEF turn_off, Moves
<1>5. CASE s.controlled /\ s.state # "STANDBY"
  BY <1>1, <1>2, <1>3, <1>5, StandbyMoves DEF turn_off
<1>6. CASE s.controlled /\ s.state = "STANDBY" /\ fade_time < remaining_fade_time(s)
  <2>1. Has(s, "TRANSITION")
    BY <1>6, TimeAssumption DEF remaining_fade_time
  <2>2. r = transition_start(manual, "STANDBY", fade_time)
    BY <1>6 DEF turn_off
  <2> HIDE DEF manual, r
  <2>3. r.state = s.state /\ r.controlled = s.controlled /\ Has(r, "TRANSITION")
    BY <1>1, <1>2, <1>6, <2>2 DEF transition_start, Server, Has
  <2> QED BY <2>1, <2>3, SameLight DEF Moves, r
<1>7. CASE s.controlled /\ s.state = "STANDBY" /\ ~(fade_time < remaining_fade_time(s))
  BY <1>3, <1>7 DEF turn_off, Moves
<1> QED BY <1>4, <1>5, <1>6, <1>7

LEMMA DelayedMoves ==
    ASSUME NEW up, NEW s \in Server, NEW time, NEW delay, NEW value, NEW since
    PROVE  /\ Moves(Shown(up, s), Shown(up, delayed_set(s, time, delay, value)))
           /\ Moves(Shown(up, s), Shown(up, delayed_occupancy(s, since)))
<1>1. ASSUME NEW d, NEW flag \in PendingFlags
      PROVE  /\ delayed_change(s, d, flag).state = s.state
             /\ delayed_change(s, d, flag).controlled = s.controlled
             /\ Has(delayed_change(s, d, flag), "TRANSITION") <=> Has(s, "TRANSITION")
             /\ [delayed_change(s, d, flag) EXCEPT !.duration = time].state = s.state
             /\ [delayed_change(s, d, flag) EXCEPT !.duration = time].controlled = s.controlled
             /\ Has([delayed_change(s, d, flag) EXCEPT !.duration = time], "TRANSITION")
                   <=> Has(s, "TRANSITION")
  BY DEF delayed_change, Server, Has, PendingFlags
<1>2. ASSUME NEW d, NEW flag \in PendingFlags
      PROVE  /\ Shown(up, delayed_change(s, d, flag)) = Shown(up, s)
             /\ Shown(up, [delayed_change(s, d, flag) EXCEPT !.duration = time]) = Shown(up, s)
  BY <1>1, SameLight
<1>3. Shown(up, delayed_set(s, time, delay, value)) = Shown(up, s)
  BY <1>2 DEF delayed_set, PendingFlags
<1>4. Shown(up, delayed_occupancy(s, since)) = Shown(up, s)
  BY <1>2 DEF delayed_occupancy, PendingFlags
<1> QED BY <1>3, <1>4 DEF Moves

LEMMA TurnedMoves ==
    ASSUME IInv, NEW value \in BOOLEAN, NEW t \in 0 .. UINT32_MAX, NEW u \in 0 .. UINT32_MAX
    PROVE  Moves(Shown(running, srv), Shown(running, TurnedOnOff(value, t, u)))
BY TypeServer, TurnOnMoves, TurnOffMoves DEF IInv, TurnedOnOff

LEMMA MessageMoves ==
    ASSUME IInv, NEW value \in BOOLEAN, Commands(value) \/ handle_sensor_status
    PROVE  Moves(Shown(running, srv), Shown(running', srv'))
<1>1. /\ srv \in Server
      /\ cfg.fade_on \in 0 .. UINT32_MAX /\ cfg.fade_standby_manual \in 0 .. UINT32_MAX
  BY TypeServer, ConfigTypes DEF IInv, TypeOK
<1>2. running' = running /\ running
  BY DEF Commands, light_onoff_set, onoff_set, bt_mesh_light_ctrl_srv_on,
         bt_mesh_light_ctrl_srv_off, handle_sensor_status, Handled
<1> USE DEF Handled
<1>3. CASE light_onoff_set(value)
  <2>1. ASSUME NEW time \in Times, NEW delay \in Delays,
               srv' = IF delay > 0 THEN delayed_set(srv, time, delay, value)
                      ELSE TurnedOnOff(value, time, time)
        PROVE  Moves(Shown(running, srv), Shown(running, srv'))
    <3>1. time \in 0 .. UINT32_MAX
      BY TimeAssumption
    <3> QED BY <1>1, <2>1, <3>1, TurnedMoves, DelayedMoves
  <2>2. CASE srv' = TurnedOnOff(value, cfg.fade_on, cfg.fade_standby_manual)
    BY <1>1, <1>2, <2>2, TurnedMoves
  <2> QED BY <1>2, <1>3, <2>1, <2>2 DEF light_onoff_set
<1>4. CASE onoff_set(value)
  <2>1. PICK time \in Times, delay \in Delays :
            srv' = IF delay > 0 THEN delayed_set(srv, time, delay, value)
                   ELSE TurnedOnOff(value, IF time > 0 THEN time ELSE cfg.fade_on,
                                    IF time > 0 THEN time ELSE cfg.fade_standby_manual)
    BY <1>4 DEF onoff_set
  <2>2. /\ (IF time > 0 THEN time ELSE cfg.fade_on) \in 0 .. UINT32_MAX
        /\ (IF time > 0 THEN time ELSE cfg.fade_standby_manual) \in 0 .. UINT32_MAX
    BY <1>1, TimeAssumption
  <2> QED BY <1>1, <1>2, <2>1, <2>2, TurnedMoves, DelayedMoves
<1>5. CASE IF value THEN bt_mesh_light_ctrl_srv_on ELSE bt_mesh_light_ctrl_srv_off
  BY <1>1, <1>2, <1>5, TurnOnMoves, TurnOffMoves
     DEF bt_mesh_light_ctrl_srv_on, bt_mesh_light_ctrl_srv_off
<1>6. CASE handle_sensor_status
  <2>1. Moves(Shown(running, srv), Shown(running, srv))
    BY DEF Moves
  <2> QED BY <1>1, <1>2, <1>6, <2>1, TurnOnMoves, DelayedMoves DEF handle_sensor_status
<1> QED BY <1>3, <1>4, <1>5, <1>6 DEF Commands

(* The server is enabled into a fade to Standby, or disabled. *)
LEMMA EnabledMoves ==
    ASSUME NEW s \in Server
    PROVE  /\ Shown(TRUE, store(ctrl_enable(s), "STORE_STATE")) = "FadeStandby"
           /\ \A up : Shown(up, store(ctrl_disable(s), "STORE_STATE")) = "Disabled"
<1> DEFINE e == store(ctrl_enable(s), "STORE_STATE")
           d == store(ctrl_disable(s), "STORE_STATE")
<1>1. e.state = "STANDBY" /\ Has(e, "TRANSITION") /\ e.controlled
  BY DEF ctrl_enable, reg_start, transition_start, store, Server, Has
<1>2. ~d.controlled
  BY DEF ctrl_disable, store, Server
<1> QED BY <1>1, <1>2 DEF Shown, LightOf

LEMMA ApplicationMoves ==
    ASSUME IInv, Application
    PROVE  Moves(Shown(running, srv), Shown(running', srv'))
<1>1. srv \in Server /\ running' = running
  BY TypeServer
     DEF IInv, Application, om_set, prop_set, lightness_set, mode_set,
         bt_mesh_light_ctrl_srv_enable, bt_mesh_light_ctrl_srv_disable, Handled
<1>2. ASSUME srv'.state = srv.state, srv'.controlled = srv.controlled,
             Has(srv', "TRANSITION") <=> Has(srv, "TRANSITION")
      PROVE  Moves(Shown(running, srv), Shown(running', srv'))
  BY <1>1, <1>2, SameLight DEF Moves
<1>3. CASE om_set
  <2>1. PICK mode \in BOOLEAN :
            srv' = store([srv EXCEPT !.flags = IF mode THEN @ \cup {"OCC_MODE"}
                                                       ELSE @ \ {"OCC_MODE"}], "STORE_STATE")
    BY <1>3 DEF om_set, Handled
  <2> QED BY <1>1, <1>2, <2>1 DEF store, Server, Has
<1>4. CASE prop_set
  BY <1>2, <1>4 DEF prop_set
<1>5. CASE lightness_set
  <2>1. ~srv'.controlled
    BY <1>1, <1>5 DEF lightness_set, Handled, Server
  <2> QED BY <2>1 DEF Moves, Shown
<1>6. CASE bt_mesh_light_ctrl_srv_enable
  <2> DEFINE s == [srv EXCEPT !.flags = @ \cup {"CTRL_SRV_MANUALLY_ENABLED"}]
  <2>1. s \in Server
    BY <1>1, FlagsType DEF Server, Flags
  <2>2. srv' = Enabled(s)
    BY <1>6 DEF bt_mesh_light_ctrl_srv_enable
  <2>3. /\ s.state = srv.state /\ s.controlled = srv.controlled
        /\ Has(s, "TRANSITION") <=> Has(srv, "TRANSITION")
        /\ Has(s, "STARTED") <=> Has(srv, "STARTED")
    BY <1>1 DEF Server, Has
  <2> HIDE DEF s
  <2>4. CASE s.controlled \/ ~Has(s, "STARTED")
    BY <1>2, <2>2, <2>3, <2>4 DEF Enabled
  <2>5. CASE ~s.controlled /\ Has(s, "STARTED")
    <3>1. running = TRUE
      BY <2>3, <2>5 DEF IInv, TypeOK, Asleep
    <3>2. srv' = store(ctrl_enable(s), "STORE_STATE")
      BY <2>2, <2>5 DEF Enabled
    <3>3. Shown(running', srv') = "FadeStandby"
      BY <1>1, <2>1, <3>1, <3>2, EnabledMoves
    <3>4. Shown(running, srv) = "Disabled"
      BY <2>3, <2>5 DEF Shown
    <3> QED BY <3>3, <3>4 DEF Moves
  <2> QED BY <2>4, <2>5
<1>7. CASE bt_mesh_light_ctrl_srv_disable
  <2> DEFINE s == [srv EXCEPT !.flags = @ \ {"CTRL_SRV_MANUALLY_ENABLED"}]
  <2>1. s \in Server
    BY <1>1, FlagsType DEF Server
  <2>2. srv' = Disabled(s)
    BY <1>7 DEF bt_mesh_light_ctrl_srv_disable
  <2>3. /\ s.state = srv.state /\ s.controlled = srv.controlled
        /\ Has(s, "TRANSITION") <=> Has(srv, "TRANSITION")
    BY <1>1 DEF Server, Has
  <2> HIDE DEF s
  <2>4. CASE ~s.controlled
    BY <1>2, <2>2, <2>3, <2>4 DEF Disabled
  <2>5. CASE s.controlled
    <3>1. Shown(running', srv') = "Disabled"
      BY <2>1, <2>2, <2>5, EnabledMoves DEF Disabled
    <3> QED BY <3>1 DEF Moves
  <2> QED BY <2>4, <2>5
<1> QED BY <1>3, <1>4, <1>5, <1>6, <1>7 DEF Application, mode_set

LEMMA TimeoutMoves ==
    ASSUME IInv, timeout
    PROVE  Moves(Shown(running, srv), Shown(running', srv'))
<1> DEFINE s == [srv EXCEPT !.timer = Idle]
           done == [s EXCEPT !.flags = @ \ {"TRANSITION"}]
           shown == IF s.duration > 0 THEN onoff_pub(done, s.state) ELSE done
<1>1. srv \in Server /\ running' = running
  BY TypeServer DEF IInv, timeout
<1>2. s \in Server /\ s.state = srv.state /\ s.controlled = srv.controlled /\ s.flags = srv.flags
  BY <1>1 DEF Server
<1>3. srv.state \in States
  BY <1>1 DEF Server
<1>4. CASE Has(s, "TRANSITION")
  <2>1. shown \in Server
    <3>1. done \in Server
      BY <1>2 DEF Server
    <3> QED BY <1>2, <1>3, <3>1, PubType
  <2>2. shown.state = srv.state /\ shown.controlled = srv.controlled /\ ~Has(shown, "TRANSITION")
    BY <1>1 DEF Server, onoff_pub, Has
  <2>3. srv' = AfterFade(shown)
    BY <1>4 DEF timeout
  <2> HIDE DEF shown
  <2>4. /\ srv'.state = srv.state /\ srv'.controlled = srv.controlled /\ ~Has(srv', "TRANSITION")
    <3>1. CASE srv.state = "ON"
      BY <2>1, <2>2, <2>3, <3>1 DEF AfterFade, Server, Has
    <3>2. CASE srv.state = "PROLONG"
      BY <2>1, <2>2, <2>3, <3>2 DEF AfterFade, Server, Has
    <3>3. CASE srv.state = "STANDBY"
      BY <2>1, <2>2, <2>3, <3>3 DEF AfterFade, Server, Has
    <3> QED BY <1>3, <3>1, <3>2, <3>3 DEF States
  <2>5. Has(srv, "TRANSITION")
    BY <1>2, <1>4 DEF Has
  <2>6. CASE ~running \/ ~srv.controlled
    BY <1>1, <2>4, <2>6 DEF Shown, Moves
  <2>7. CASE running /\ srv.controlled
    BY <1>1, <1>3, <2>4, <2>5, <2>7 DEF Shown, LightOf, Moves, States
  <2> QED BY <2>6, <2>7
<1>5. CASE ~Has(s, "TRANSITION")
  <2>1. ~Has(srv, "TRANSITION")
    BY <1>2, <1>5 DEF Has
  <2>2. CASE srv.state = "ON"
    <3>1. srv' = prolong(s)
      BY <1>2, <1>5, <2>2 DEF timeout
    <3>2. CASE ~srv.controlled
      BY <1>1, <1>2, <3>1, <3>2 DEF prolong, Shown, Moves
    <3>3. CASE srv.controlled
      <4>1. srv'.state = "PROLONG" /\ srv'.controlled /\ Has(srv', "TRANSITION")
        BY <1>2, <2>2, <3>1, <3>3 DEF prolong, transition_start, Server, Has
      <4> QED BY <1>1, <2>1, <2>2, <3>3, <4>1 DEF Shown, LightOf, Moves
    <3> QED BY <3>2, <3>3
  <2>3. CASE srv.state = "PROLONG"
    <3>1. srv' = turn_off_auto(s)
      BY <1>2, <1>5, <2>3 DEF timeout
    <3>2. CASE ~srv.controlled
      BY <1>1, <1>2, <3>1, <3>2 DEF turn_off_auto, Shown, Moves
    <3>3. CASE srv.controlled
      <4>1. srv' = ToStandby(s, cfg.fade_standby_auto)
        BY <1>2, <2>3, <3>1, <3>3 DEF turn_off_auto
      <4>2. Shown(running, s) = Shown(running, srv)
        BY <1>1, <1>2, SameLight DEF Has
      <4> QED BY <1>1, <1>2, <2>3, <3>3, <4>1, <4>2, StandbyMoves
    <3> QED BY <3>2, <3>3
  <2>4. CASE srv.state = "STANDBY"
    <3>1. srv' = [s EXCEPT !.flags = @ \ {"MANUAL"}]
      BY <1>2, <1>5, <2>4 DEF timeout
    <3>2. /\ srv'.state = srv.state /\ srv'.controlled = srv.controlled
          /\ Has(srv', "TRANSITION") <=> Has(srv, "TRANSITION")
      BY <1>1, <3>1 DEF Server, Has
    <3> QED BY <1>1, <3>2, SameLight DEF Moves
  <2> QED BY <1>3, <2>2, <2>3, <2>4 DEF States
<1> QED BY <1>4, <1>5

LEMMA DelayedActionMoves ==
    ASSUME IInv, delayed_action_timeout
    PROVE  Moves(Shown(running, srv), Shown(running', srv'))
<1> DEFINE s == [srv EXCEPT !.action_delay = Idle]
           taken(flag) == [s EXCEPT !.flags = @ \ {flag}]
<1>1. srv \in Server /\ running' = running
  BY TypeServer DEF IInv, delayed_action_timeout
<1>2. s.duration \in 0 .. UINT32_MAX
  BY <1>1 DEF Server
<1>3. ASSUME NEW flag \in PendingFlags
      PROVE  taken(flag) \in Server /\ Shown(running, taken(flag)) = Shown(running, srv)
  <2>1. s \in Server
    BY <1>1 DEF Server
  <2>2. taken(flag) \in Server
    BY <2>1, FlagsType DEF Server
  <2>3. /\ taken(flag).state = srv.state /\ taken(flag).controlled = srv.controlled
        /\ Has(taken(flag), "TRANSITION") <=> Has(srv, "TRANSITION")
    BY <1>1, <1>3 DEF Server, Has, PendingFlags
  <2> HIDE DEF taken
  <2> QED BY <1>1, <2>2, <2>3, SameLight
<1>4. \/ srv' = turn_on(taken("ON_PENDING"), s.duration)
      \/ srv' = turn_off(taken("OFF_PENDING"), s.duration)
      \/ srv' = turn_on(taken("OCC_PENDING"), cfg.fade_on)
      \/ srv' = taken("OCC_PENDING")
  BY DEF delayed_action_timeout
<1> HIDE DEF s, taken
<1>5. /\ "ON_PENDING" \in PendingFlags
      /\ "OFF_PENDING" \in PendingFlags
      /\ "OCC_PENDING" \in PendingFlags
  BY DEF PendingFlags
<1>6. CASE srv' = turn_on(taken("ON_PENDING"), s.duration)
  BY <1>1, <1>3, <1>5, <1>6, TurnOnMoves
<1>7. CASE srv' = turn_off(taken("OFF_PENDING"), s.duration)
  BY <1>1, <1>2, <1>3, <1>5, <1>7, TurnOffMoves
<1>8. CASE srv' = turn_on(taken("OCC_PENDING"), cfg.fade_on)
  BY <1>1, <1>3, <1>5, <1>8, TurnOnMoves
<1>9. CASE srv' = taken("OCC_PENDING")
  BY <1>1, <1>3, <1>5, <1>9 DEF Moves
<1> QED BY <1>4, <1>6, <1>7, <1>8, <1>9

(* Saving, the regulator and time change nothing that is shown. *)
LEMMA SilentMoves ==
    ASSUME IInv, store_timeout \/ reg_step \/ Tick
    PROVE  Moves(Shown(running, srv), Shown(running', srv'))
<1>1. srv \in Server /\ running' = running
  BY TypeServer DEF IInv, store_timeout, reg_step, Tick
<1>2. /\ srv'.state = srv.state /\ srv'.controlled = srv.controlled
      /\ Has(srv', "TRANSITION") <=> Has(srv, "TRANSITION")
  BY <1>1 DEF store_timeout, reg_step, reg_start, Tick, Server, Has, StoreFlags
<1> QED BY <1>1, <1>2, SameLight DEF Moves

LEMMA StartMoves ==
    ASSUME IInv, light_ctrl_srv_start
    PROVE  Moves(Shown(running, srv), Shown(running', srv'))
<1> DEFINE s == [srv EXCEPT !.flags = @ \cup {"STARTED"}]
<1>1. srv \in Server /\ running = FALSE /\ running' = TRUE /\ srv.state = "STANDBY"
  BY TypeServer DEF IInv, TypeOK, Asleep, light_ctrl_srv_start
<1>2. s \in Server
  BY <1>1, FlagsType DEF Server, Flags
<1>3. s.state = "STANDBY"
  BY <1>1 DEF Server
<1>4. srv' \in {Restored(s), store(ctrl_enable(s), "STORE_STATE"),
                store(ctrl_disable(s), "STORE_STATE")}
  BY DEF light_ctrl_srv_start
<1> HIDE DEF s
<1>5. Shown(running, srv) = "Disabled"
  BY <1>1 DEF Shown
<1>6. CASE srv' = Restored(s)
  <2>1. CASE ~s.controlled
    BY <1>1, <1>5, <1>6, <2>1 DEF Restored, Shown, Moves
  <2>2. CASE s.controlled /\ ~Has(s, "ON")
    <3>1. srv'.state = "STANDBY" /\ srv'.controlled
      BY <1>2, <1>3, <1>6, <2>2 DEF Restored, reg_start, Server
    <3>2. Shown(running', srv') \in {"Standby", "FadeStandby"}
      BY <1>1, <3>1 DEF Shown, LightOf
    <3> QED BY <1>5, <3>2 DEF Moves
  <2>3. CASE s.controlled /\ Has(s, "ON")
    <3>1. srv'.state = "ON" /\ srv'.controlled /\ Has(srv', "TRANSITION")
      BY <1>2, <1>3, <1>6, <2>3
         DEF Restored, reg_start, turn_on, onoff_pub, transition_start, store, Server, Has
    <3>2. Shown(running', srv') = "FadeOn"
      BY <1>1, <3>1 DEF Shown, LightOf
    <3> QED BY <1>5, <3>2 DEF Moves
  <2> QED BY <2>1, <2>2, <2>3
<1>7. CASE srv' # Restored(s)
  BY <1>1, <1>2, <1>4, <1>5, <1>7, EnabledMoves DEF Moves
<1> QED BY <1>6, <1>7

LEMMA NextMoves ==
    ASSUME IInv, [Next]_vars
    PROVE  Moves(Shown(running, srv), Shown(running', srv'))
<1>1. CASE OnEvents \/ Commands(FALSE)
  BY <1>1, MessageMoves DEF OnEvents
<1>2. CASE Timeouts
  BY <1>2, TimeoutMoves, DelayedActionMoves, SilentMoves DEF Timeouts
<1>3. CASE Reboot
  BY <1>3 DEF Reboot, Shown, Moves
<1>4. CASE UNCHANGED vars
  BY <1>4 DEF vars, Moves
<1> QED BY <1>1, <1>2, <1>3, <1>4, ApplicationMoves, SilentMoves, StartMoves DEF Next

(* The server implements the state machine of its documentation: the       *)
(* initial states are its initial state, and every step of the server is   *)
(* one of its steps or changes nothing of it.                              *)
THEOREM MachineImplemented == Spec => ImplementsMachine
<1>1. Init => Machine!MachineInit
  BY DEF Init, BootState, Machine!MachineInit
<1>2. IInv /\ [Next]_vars => [Machine!MachineNext]_(Shown(running, srv))
  <2> SUFFICES ASSUME IInv, [Next]_vars,
                      Shown(running', srv') # Shown(running, srv)
               PROVE  Machine!MachineNext
    BY DEF Shown, LightOf, Has
  <2> DEFINE a == Shown(running, srv)
             b == Shown(running', srv')
  <2>1. Moves(a, b) /\ a # b
    BY NextMoves
  <2>2. /\ Machine!Enable <=> a = "Disabled" /\ b \in {"FadeStandby", "Standby", "FadeOn"}
        /\ Machine!Disable <=> a # "Disabled" /\ b = "Disabled"
        /\ Machine!OnEvent <=> a \in Machine!Modes \ {"Disabled", "FadeOn", "On"} /\ b = "FadeOn"
        /\ Machine!OffEvent <=> a \in Machine!Lit /\ b = "FadeStandby"
        /\ Machine!Timeout <=> a \in DOMAIN Machine!After /\ b = Machine!After[a]
    BY Zenon
       DEF Machine!Enable, Machine!Disable, Machine!OnEvent, Machine!OffEvent, Machine!Timeout,
           Shown, LightOf
  <2> HIDE DEF a, b
  <2> QED BY <2>1, <2>2
          DEF Moves, Machine!MachineNext, Machine!After, Machine!Lit, Machine!Modes
<1> QED BY <1>1, <1>2, InvHolds, PTL
        DEF Spec, ImplementsMachine, Machine!MachineSpec, Shown, LightOf
=============================================================================
