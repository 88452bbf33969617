------------------------------ MODULE NDConfig ------------------------------
(***************************************************************************)
(* The configuration of the 6LoWPAN ND router: the table global_config, the*)
(* search of source/cfg_parser.c, load_config of                           *)
(* source/borderrouter_tasklet.c with the values it stores, and what       *)
(* start_6lowpan hands over of them to the stack.  NDBorderRouter has the  *)
(* control of the tasklet and reads the configuration as a record; here the*)
(* record is shown to be what the search finds in the table.               *)
(*                                                                         *)
(* The events that make start_6lowpan run are left to NDBorderRouter: here *)
(* it may run at any time after load_config, until the mesh is up.         *)
(***************************************************************************)
EXTENDS Integers, Sequences

CONSTANTS
    Tables,         \* the tables the program may be built with
    Prefixes,       \* /64 prefixes
    Unspecified     \* the prefix ::, and the zero value of a static array

VARIABLES
    global_config,  \* the table of this build
    loaded,         \* whether load_config has run
    backhaul,       \* backhaul_bootstrap_mode, backhaul_prefix, backhaul_route
    from_backhaul,  \* rf_prefix_from_backhaul
    multicast_addr,
    channel_list,
    br,
    rpl_setup_info, \* with the two halves of DODAG_ID
    dodag_config,
    security,       \* link_security_mode, link_layer_psk, pana_security_suite
    stack           \* what the stack was handed of the mesh

structures == <<backhaul, from_backhaul, multicast_addr, channel_list, br,
                rpl_setup_info, dodag_config, security>>
vars == <<global_config, loaded, structures, stack>>

-----------------------------------------------------------------------------
(* The table and its search.                                               *)

\* NULL as a name ends the table; as a string it is what cfg_string returns
\* for a key that only has an integer.
NULL == "NULL"
Entry(name, svalue, ivalue) == [name |-> name, svalue |-> svalue, ivalue |-> ivalue]
Terminator == Entry(NULL, NULL, 0)

\* The position at which the loop of cfg_string and cfg_int stops with a match,
\* 0 when it reaches the terminator; nothing else stops it.
Position_last(conf, key) ==
    LET from[i \in 1 .. Len(conf)] ==
            IF conf[i].name = NULL THEN 0
            ELSE LET rest == from[i + 1] IN
                 IF rest = 0 /\ conf[i].name = key THEN i ELSE rest
    IN  from[1]
Position(conf, key) ==
    LET from[i \in 1 .. Len(conf)] ==
            IF conf[i].name = NULL THEN 0
            ELSE IF conf[i].name = key THEN i
            ELSE from[i + 1]
    IN  from[1]

cfg_string(conf, key, default) ==
    LET i == Position(conf, key) IN IF i = 0 THEN default ELSE conf[i].svalue
cfg_int(conf, key, default) ==
    LET i == Position(conf, key) IN IF i = 0 THEN default ELSE conf[i].ivalue

Str(key, default) == cfg_string(global_config, key, default)
Num(key, default) == cfg_int(global_config, key, default)

-----------------------------------------------------------------------------
(* Channels.                                                               *)

\* The values of a counter or a number of n different ones.
Below(n) == 0 .. n - 1

ChannelWords == Below(8)
NoChannels == [w \in ChannelWords |-> {}]

\* The bits of a mask that is not negative as an int.
Bits(n) == {b \in 0..30 : (n \div 2^b) % 2 = 1}

ChannelsOf_added(channel, mask) ==
    [mask EXCEPT ![channel \div 32] = @ \cup {channel % 32}]
\* initialize_channel_list: a channel other than 0 replaces the whole mask.
ChannelsOf(channel, mask) ==
    IF channel > 0
    THEN [NoChannels EXCEPT ![channel \div 32] = {channel % 32}]
    ELSE mask

\* A table is a C array that ends on a NULL name (static_6lowpan_config.h:47):
\* the search would overrun any other.  RF_CHANNEL indexes the eight words of a
\* mask without a check, so that a larger value is outside of what is modelled,
\* as is a mask with its highest bit set.
ASSUME NDConfigAssumption ==
    /\ Tables \subseteq Seq([name : STRING, svalue : STRING, ivalue : Int])
    /\ Prefixes \cup {Unspecified} \subseteq STRING \ {NULL}
    /\ \A table \in Tables :
          /\ table # <<>> /\ table[Len(table)].name = NULL
          /\ cfg_int(table, "RF_CHANNEL", 0) \in Below(256)
          /\ cfg_int(table, "RF_CHANNEL_MASK", 0) \in Nat

-----------------------------------------------------------------------------
(* load_config.                                                            *)

\* The key and the default of every integer stored in a structure as it is.
BrFields ==
    [mac_panid          |-> <<"PAN_ID", 1681>>,            \* 0x0691
     mac_short_adr      |-> <<"SHORT_MAC_ADDRESS", 65535>>,
     ra_life_time       |-> <<"RA_ROUTER_LIFETIME", 1024>>,
     beacon_protocol_id |-> <<"BEACON_PROTOCOL_ID", 4>>]
DodagFields_swapped ==
    [DAG_DIO_INT_DOUB     |-> <<"RPL_IMIN", 12>>,
     DAG_DIO_INT_MIN      |-> <<"RPL_IDOUBLINGS", 9>>,
     DAG_DIO_REDU         |-> <<"RPL_K", 10>>,
     DAG_MAX_RANK_INC     |-> <<"RPL_MAX_RANK_INC", 2048>>,
     DAG_MIN_HOP_RANK_INC |-> <<"RPL_MIN_HOP_RANK_INC", 128>>,
     LIFE_IN_SECONDS      |-> <<"RPL_LIFETIME_UNIT", 64>>,
     LIFETIME_UNIT        |-> <<"RPL_DEFAULT_LIFETIME", 60>>,
     DAG_SEC_PCS          |-> <<"RPL_PCS", 1>>,
     DAG_OCP              |-> <<"RPL_OCP", 1>>]
DodagFields ==
    [DAG_DIO_INT_DOUB     |-> <<"RPL_IDOUBLINGS", 12>>,
     DAG_DIO_INT_MIN      |-> <<"RPL_IMIN", 9>>,
     DAG_DIO_REDU         |-> <<"RPL_K", 10>>,
     DAG_MAX_RANK_INC     |-> <<"RPL_MAX_RANK_INC", 2048>>,
     DAG_MIN_HOP_RANK_INC |-> <<"RPL_MIN_HOP_RANK_INC", 128>>,
     LIFE_IN_SECONDS      |-> <<"RPL_LIFETIME_UNIT", 64>>,
     LIFETIME_UNIT        |-> <<"RPL_DEFAULT_LIFETIME", 60>>,
     DAG_SEC_PCS          |-> <<"RPL_PCS", 1>>,
     DAG_OCP              |-> <<"RPL_OCP", 1>>]

Read(fields) == [f \in DOMAIN fields |-> Num(fields[f][1], fields[f][2])]

ShortAddress_wide == Read(BrFields).mac_short_adr
\* br.mac_short_adr is 16 bits wide, rf_prefix_from_backhaul and rpl_instance_id
\* are 8.
ShortAddress == Read(BrFields).mac_short_adr % 65536
FromBackhaul == Num("PREFIX_FROM_BACKHAUL", 0) % 256
InstanceId   == Num("RPL_INSTANCE_ID", 1) % 256

\* The half of DODAG_ID load_config makes from the short address, if there is
\* one, or else from the MAC address of the radio.
HostOf_reserved(short) ==
    IF short <= 65534 THEN [from |-> "short", address |-> short]
                      ELSE [from |-> "mac", address |-> 0]
HostOf(short) == IF short < 65534 THEN [from |-> "short", address |-> short]
                                  ELSE [from |-> "mac", address |-> 0]

\* The prefixes and the address without which load_config gives up.
HasPrefix    == Str("PREFIX", NULL) # NULL
HasBackhaul  == HasPrefix /\ Str("BACKHAUL_PREFIX", NULL) # NULL
ReadsTheRest == HasBackhaul /\ Str("MULTICAST_ADDR", NULL) # NULL

NoRoute == [next_hop |-> Unspecified, destination |-> Unspecified]
OrZero(string) == IF string = NULL THEN Unspecified ELSE string

LinkMode(mode) == IF mode \in {"PSK", "PANA"} THEN mode ELSE "NONE"
Suite(mode, pana) ==
    IF mode # "PANA" THEN security.suite
    ELSE IF pana \in {"ECC", "ECC+PSK"} THEN pana ELSE "PSK"

\* SECURITY_MODE other than NONE, with a PSK_KEY.
WithKey(mode) ==
    [mode   |-> LinkMode(mode),
     key    |-> Str("PSK_KEY", NULL),
     key_id |-> Num("PSK_KEY_ID", 1),
     suite  |-> Suite(mode, Str("PANA_MODE", "PSK"))]

Secured_unkeyed ==
    LET mode == Str("SECURITY_MODE", "NONE") IN
    IF mode = "NONE" THEN security ELSE WithKey(mode)
Secured ==
    LET mode == Str("SECURITY_MODE", "NONE") IN
    IF mode = "NONE" \/ Str("PSK_KEY", NULL) = NULL THEN security ELSE WithKey(mode)

\* What follows the three returns for a missing address.
LoadTheRest ==
    /\ multicast_addr' = Str("MULTICAST_ADDR", NULL)
    /\ channel_list' =
           [page |-> Num("RF_CHANNEL_PAGE", 0),
            mask |-> [NoChannels EXCEPT ![0] = Bits(Num("RF_CHANNEL_MASK", 134215680))]]
    /\ br' = [fields     |-> [Read(BrFields) EXCEPT !.mac_short_adr = ShortAddress],
              network_id |-> Str("NETWORK_ID", "NETWORK000000000"),
              prefix     |-> Str("PREFIX", NULL)]
    /\ rpl_setup_info' = [instance_id |-> InstanceId,
                          prefix      |-> Str("PREFIX", NULL),
                          host        |-> HostOf(ShortAddress)]
    /\ dodag_config' = Read(DodagFields)
    /\ from_backhaul' = FromBackhaul
    /\ backhaul' =
           [autonomous |-> Num("BACKHAUL_DYNAMIC_BOOTSTRAP", 0) # 0,
            prefix     |-> Str("BACKHAUL_PREFIX", NULL),
            route      |-> [next_hop    |-> OrZero(Str("BACKHAUL_NEXT_HOP", NULL)),
                            destination |-> OrZero(Str("BACKHAUL_DEFAULT_ROUTE", NULL))]]
    /\ security' = Secured

load_config ==
    /\ ~loaded /\ loaded' = TRUE
    /\ \/ ReadsTheRest /\ LoadTheRest
       \/ /\ ~ReadsTheRest
          /\ backhaul' = IF HasBackhaul
                         THEN [backhaul EXCEPT !.prefix = Str("BACKHAUL_PREFIX", NULL)]
                         ELSE backhaul
          /\ UNCHANGED <<from_backhaul, multicast_addr, channel_list, br,
                         rpl_setup_info, dodag_config, security>>
    /\ UNCHANGED <<global_config, stack>>

-----------------------------------------------------------------------------
(* start_6lowpan, with a global address of prefix p on the backhaul.       *)

BrAfter(n, p)  == IF n >= 2 /\ from_backhaul # 0 THEN [br EXCEPT !.prefix = p] ELSE br
RplAfter(n, p) == IF n >= 2 /\ from_backhaul # 0
                  THEN [rpl_setup_info EXCEPT !.prefix = p] ELSE rpl_setup_info

\* The calls are numbered as in NDBorderRouter (bootstrap_set 1, security_mode
\* 2, border_router_init 3, context_update 4, the PANA calls 5, the channel
\* list 6, interface_up 7); the last two are made only if the PANA calls are
\* not needed or succeed, which takes a TLS_PSK_KEY.
UsesPana  == security.mode = "PANA"
HasTlsKey == Str("TLS_PSK_KEY", NULL) # NULL

HandedOver(n, p) ==
    [stack EXCEPT
        !.security  = IF n >= 2 THEN [mode |-> security.mode, key |-> security.key,
                                      key_id |-> security.key_id] ELSE @,
        !.br        = IF n >= 3 THEN BrAfter(n, p) ELSE @,
        !.rpl       = IF n >= 4 THEN RplAfter(n, p) ELSE @,
        !.dodag     = IF n >= 4 THEN dodag_config ELSE @,
        !.pana      = IF n >= 5 /\ UsesPana
                      THEN [suite |-> security.suite, key |-> Str("TLS_PSK_KEY", NULL),
                            key_id |-> Num("TLS_PSK_KEY_ID", 0)] ELSE @,
        !.channels  = IF n >= 6 THEN channel_list' ELSE @,
        !.multicast = IF n = 7 THEN multicast_addr ELSE @,
        !.up        = n = 7]

start_6lowpan ==
    /\ loaded /\ ~stack.up
    /\ channel_list' = [channel_list EXCEPT !.mask = ChannelsOf(Num("RF_CHANNEL", 0), @)]
    /\ \E n \in 0..7, p \in Prefixes :
          /\ n >= 5 /\ UsesPana => HasTlsKey
          /\ br' = BrAfter(n, p)
          /\ rpl_setup_info' = RplAfter(n, p)
          /\ stack' = HandedOver(n, p)
    /\ UNCHANGED <<global_config, loaded, backhaul, from_backhaul,
                   multicast_addr, dodag_config, security>>

-----------------------------------------------------------------------------

Zero(fields) == [f \in DOMAIN fields |-> 0]
NoChannelList == [page |-> 0, mask |-> NoChannels]
ZeroBr  == [fields |-> Zero(BrFields), network_id |-> Unspecified, prefix |-> Unspecified]
ZeroRpl == [instance_id |-> 0, prefix |-> Unspecified,
            host |-> [from |-> "zero", address |-> 0]]

\* The static variables, and a stack that was handed nothing.
Init ==
    /\ global_config \in Tables
    /\ loaded = FALSE
    /\ backhaul = [autonomous |-> FALSE, prefix |-> Unspecified, route |-> NoRoute]
    /\ from_backhaul = 0
    /\ multicast_addr = Unspecified
    /\ channel_list = NoChannelList
    /\ br = ZeroBr
    /\ rpl_setup_info = ZeroRpl
    /\ dodag_config = Zero(DodagFields)
    /\ security = [mode |-> "NONE", key |-> NULL, key_id |-> 0, suite |-> NULL]
    /\ stack = [security  |-> [mode |-> "NONE", key |-> NULL, key_id |-> 0],
                br        |-> ZeroBr,
                rpl       |-> ZeroRpl,
                dodag     |-> Zero(DodagFields),
                pana      |-> [suite |-> NULL, key |-> NULL, key_id |-> 0],
                channels  |-> NoChannelList,
                multicast |-> Unspecified,
                up        |-> FALSE]

\* With the mesh up the router is configured for good.
Next == load_config \/ start_6lowpan

Spec == Init /\ [][Next]_vars

-----------------------------------------------------------------------------
(* Properties.                                                             *)

\* The search by its contract: the first entry of that name before the end.
Matches(conf, key) ==
    {i \in DOMAIN conf : /\ conf[i].name = key
                         /\ \A j \in 1 .. i - 1 : conf[j].name \notin {key, NULL}}
Present(key) == Matches(global_config, key) # {}
EntryOf(key) == global_config[CHOOSE i \in Matches(global_config, key) : TRUE]
TextOf(key)  == IF Present(key) THEN EntryOf(key).svalue ELSE NULL
NumberOf(key, default) == IF Present(key) THEN EntryOf(key).ivalue ELSE default

\* What load_config needs is in the table.
Complete == \A key \in {"PREFIX", "BACKHAUL_PREFIX", "MULTICAST_ADDR"} :
                TextOf(key) # NULL

Texts == {e.svalue : e \in UNION {{t[i] : i \in DOMAIN t} : t \in Tables}}
             \cup Prefixes \cup {Unspecified, NULL, "NETWORK000000000"}

\* Every structure has its type: a short address is a 16-bit number, a channel
\* mask eight words of 32 bits, a setting never the NULL of a missing key.
TypeOK ==
    /\ global_config \in Tables /\ loaded \in BOOLEAN /\ from_backhaul \in Below(256)
    /\ backhaul.autonomous \in BOOLEAN /\ backhaul.prefix \in Texts \ {NULL}
    /\ backhaul.route \in [next_hop : Texts \ {NULL}, destination : Texts \ {NULL}]
    /\ multicast_addr \in Texts \ {NULL}
    /\ \A list \in {channel_list, stack.channels} :
          list.mask \in [ChannelWords -> SUBSET Below(32)]
    /\ \A b \in {br, stack.br} :
          /\ b.fields.mac_short_adr \in Below(65536)
          /\ b.prefix \in Texts \ {NULL}
    /\ rpl_setup_info.host \in [from : {"zero", "short", "mac"}, address : Below(65534)]
    /\ security.mode \in {"NONE", "PSK", "PANA"}
    /\ stack.up \in BOOLEAN

\* cfg_string and cfg_int find the first entry of a name and none behind the
\* end of the table, with names repeated and missing.
LookupIsFirstMatch ==
    \A key \in {global_config[i].name : i \in DOMAIN global_config} \ {NULL} :
        LET i == Position(global_config, key) IN
        IF Matches(global_config, key) = {} THEN i = 0
                                            ELSE i \in Matches(global_config, key)

Enabled(mask) == {32 * w + b : w \in ChannelWords, b \in Below(32)} \cap
                 {c \in Below(256) : c % 32 \in mask[c \div 32]}

\* RF_CHANNEL other than 0 is the one channel the mesh is started on, also
\* after attempts that stopped half-way; with RF_CHANNEL 0 the mesh listens to
\* those of RF_CHANNEL_MASK.
ChannelsAsConfigured ==
    stack.up /\ Complete =>
        LET channel == NumberOf("RF_CHANNEL", 0) IN
        Enabled(stack.channels.mask) =
            IF channel > 0 THEN {channel} ELSE Bits(NumberOf("RF_CHANNEL_MASK", 134215680))

\* The RPL and border router options of README.md:108-110 and 126-133 but the
\* lifetimes, with their documented defaults; that of RPL_PCS is the code's.
DocumentedDodag ==
    [DAG_DIO_INT_DOUB     |-> NumberOf("RPL_IDOUBLINGS", 12),
     DAG_DIO_INT_MIN      |-> NumberOf("RPL_IMIN", 9),
     DAG_DIO_REDU         |-> NumberOf("RPL_K", 10),
     DAG_MAX_RANK_INC     |-> NumberOf("RPL_MAX_RANK_INC", 2048),
     DAG_MIN_HOP_RANK_INC |-> NumberOf("RPL_MIN_HOP_RANK_INC", 128),
     DAG_SEC_PCS          |-> NumberOf("RPL_PCS", 1),
     DAG_OCP              |-> NumberOf("RPL_OCP", 1)]
DocumentedBr ==
    [ra_life_time       |-> NumberOf("RA_ROUTER_LIFETIME", 1024),
     beacon_protocol_id |-> NumberOf("BEACON_PROTOCOL_ID", 4)]

\* The two lifetimes in the two fields, whichever of the fields is the unit.
LifetimesAre(lifetime, unit) ==
    <<stack.dodag.LIFE_IN_SECONDS, stack.dodag.LIFETIME_UNIT>>
        \in {<<lifetime, unit>>, <<unit, lifetime>>}

\* The mode the table asks for, if it has the key that every mode needs.
ConfiguredMode == IF TextOf("SECURITY_MODE") \in {"PSK", "PANA"} /\ TextOf("PSK_KEY") # NULL
                  THEN TextOf("SECURITY_MODE") ELSE "NONE"
ConfiguredSuite == IF TextOf("PANA_MODE") \in {"ECC", "ECC+PSK"}
                   THEN TextOf("PANA_MODE") ELSE "PSK"

\* A mesh started from a complete table runs with the options the table has, or
\* their defaults, the RPL instance id as the 8-bit number it is; with the RPL
\* lifetimes if the table has both; and with the security mode of the table, its
\* keys and key ids, but without security where PSK_KEY is missing.
OptionsReachMesh ==
    stack.up /\ Complete =>
        /\ \A f \in DOMAIN DocumentedDodag : stack.dodag[f] = DocumentedDodag[f]
        /\ \A f \in DOMAIN DocumentedBr : stack.br.fields[f] = DocumentedBr[f]
        /\ stack.rpl.instance_id = NumberOf("RPL_INSTANCE_ID", 1) % 256
        /\ Present("RPL_DEFAULT_LIFETIME") /\ Present("RPL_LIFETIME_UNIT") =>
              LifetimesAre(EntryOf("RPL_DEFAULT_LIFETIME").ivalue,
                           EntryOf("RPL_LIFETIME_UNIT").ivalue)
        /\ stack.multicast = TextOf("MULTICAST_ADDR")
        /\ stack.security.mode = ConfiguredMode
        /\ stack.security.mode # "NONE" =>
              /\ stack.security.key = TextOf("PSK_KEY")
              /\ stack.security.key_id = NumberOf("PSK_KEY_ID", 1)
        /\ stack.security.mode = "PANA" =>
              /\ stack.pana.suite = ConfiguredSuite
              /\ stack.pana.key = TextOf("TLS_PSK_KEY") /\ stack.pana.key # NULL
              /\ stack.pana.key_id = NumberOf("TLS_PSK_KEY_ID", 0)

\* The border router's own address, the DODAG id that is also the ND context,
\* is one of its own: its prefix is the mesh's, however often the prefix of
\* the backhaul replaced it in earlier attempts, and its host half is the short
\* address the stack was given, but for the two that IEEE 802.15.4 reserves
\* ("no short address" and broadcast), with which it is the MAC address.
DodagIdIsOwnAddress ==
    stack.up /\ ReadsTheRest =>
        /\ stack.rpl.prefix = stack.br.prefix
        /\ LET short == stack.br.fields.mac_short_adr IN
           stack.rpl.host = IF short \in {65534, 65535}
                            THEN [from |-> "mac", address |-> 0]
                            ELSE [from |-> "short", address |-> short]

\* "Default lifetime for the RPL routes, default: 64" and "The value of the
\* unit that describes the lifetime (in seconds), default: 60"
\* (README.md:130-131): whichever of the two fields is the unit, the mesh is
\* started with RPL_LIFETIME_UNIT and RPL_DEFAULT_LIFETIME, or their defaults.
RplLifetimesDocumented ==
    stack.up /\ Complete =>
        LifetimesAre(NumberOf("RPL_DEFAULT_LIFETIME", 64), NumberOf("RPL_LIFETIME_UNIT", 60))

-----------------------------------------------------------------------------
(* The configuration as NDBorderRouter reads it.                           *)

Known(mode) == IF mode \in {"NONE", "PSK", "PANA"} THEN mode ELSE "OTHER"

\* NDBorderRouter with the record the table stands for, PREFIX_FROM_BACKHAUL
\* as the 8 bits it is kept in; what load_config does not touch is substituted
\* by constants.
ND == INSTANCE NDBorderRouter WITH
    global_config <-
        [PREFIX |-> TextOf("PREFIX"),
         BACKHAUL_PREFIX |-> TextOf("BACKHAUL_PREFIX"),
         MULTICAST_ADDR |-> TextOf("MULTICAST_ADDR") # NULL,
         BACKHAUL_DYNAMIC_BOOTSTRAP |-> NumberOf("BACKHAUL_DYNAMIC_BOOTSTRAP", 0) # 0,
         PREFIX_FROM_BACKHAUL |-> NumberOf("PREFIX_FROM_BACKHAUL", 0) % 256 # 0,
         SECURITY_MODE |-> IF Present("SECURITY_MODE")
                           THEN Known(TextOf("SECURITY_MODE")) ELSE "NONE",
         PSK_KEY |-> TextOf("PSK_KEY") # NULL,
         TLS_PSK_KEY |-> TextOf("TLS_PSK_KEY") # NULL],
    settings <- [autonomous |-> backhaul.autonomous,
                 from_backhaul |-> from_backhaul # 0,
                 security |-> security.mode],
    backhaul_prefix <- backhaul.prefix,
    lowpan_nd_prefix <- br.prefix,
    DODAG_ID <- rpl_setup_info.prefix,
    MaxEvents <- 1, MayFail <- {}, Driver <- "EMAC", IfIds <- {},
    FailCodes <- {-1}, Configs <- {}, StartFails <- {},
    appq <- <<>>, nwkq <- <<>>, timer <- "off", link <- "down",
    status_cb <- FALSE, ifs <- <<>>, tasklet <- "created",
    net_6lowpan_id <- -1, backhaul_if_id <- -1, net_6lowpan_state <- "off",
    net_backhaul_state <- "off", mesh <- "off"

\* What load_config does with the table is what NDBorderRouter says it does
\* with the record: the same settings and prefixes, and the same early returns.
ImplementsNDLoadConfig == [][~loaded /\ loaded' => ND!load_config]_vars
=============================================================================
