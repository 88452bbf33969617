---------------------------- MODULE NDConfigProofs ----------------------------
(***************************************************************************)
(* What holds of NDConfig for every table the program may be built with:   *)
(* the search of the table by its contract, and from it what the tasklet   *)
(* keeps of the configuration and hands over to the stack.                 *)
(***************************************************************************)
EXTENDS NDConfig, SequenceTheorems, WellFoundedInduction, TLAPS

\* A table is a sequence of entries that ends on a NULL name.
Entries == [name : STRING, svalue : STRING, ivalue : Int]
Tabular == {conf \in Seq(Entries) : conf # <<>> /\ conf[Len(conf)].name = NULL}

LEMMA TableEntries ==
    ASSUME NEW conf \in Tabular
    PROVE  /\ Len(conf) \in Nat \ {0} /\ DOMAIN conf = 1 .. Len(conf)
           /\ \A i \in 1 .. Len(conf) : conf[i] \in Entries
           /\ conf[Len(conf)].name = NULL
BY LenProperties DEF Tabular

-----------------------------------------------------------------------------
(* The search.                                                             *)

\* A set of numbers has a least element, and one that is bounded a greatest.
LEMMA Least ==
    ASSUME NEW T \in SUBSET Nat, T # {}
    PROVE  \E x \in T : \A y \in T : x <= y
<1> DEFINE R == OpToRel(<, Nat)
<1>1. IsWellFoundedOn(R, Nat)
  BY NatLessThanWellFounded
<1>2. ASSUME NEW x \in Nat, NEW y \in Nat, <<y, x>> \notin R
      PROVE  x <= y
  BY <1>2 DEF OpToRel
<1> HIDE DEF R
<1>3. PICK x \in T : \A y \in T : <<y, x>> \notin R
  BY <1>1, WFMin
<1>4. \A y \in T : x <= y
  BY <1>2, <1>3
<1>5. QED
  BY <1>4

LEMMA Greatest ==
    ASSUME NEW n \in Nat, NEW T \in SUBSET (1..n), T # {}
    PROVE  \E x \in T : \A y \in T : y <= x
<1> DEFINE U == {n - x : x \in T}
<1>1. U \in SUBSET Nat /\ U # {}
  <2>1. PICK x \in T : TRUE
    OBVIOUS
  <2>2. n - x \in U
    BY <2>1
  <2>3. QED
    BY <2>2
<1>2. PICK u \in U : \A v \in U : u <= v
  BY <1>1, Least
<1>3. PICK x \in T : u = n - x
  OBVIOUS
<1>4. \A y \in T : n - y \in U
  OBVIOUS
<1>5. \A y \in T : n - x <= n - y
  BY <1>2, <1>3, <1>4
<1>6. QED
  BY <1>5

\* One step of the loop of cfg_string and cfg_int, at position i, if the rest
\* of the search returns what f holds.
Step(conf, key, f, i) ==
    IF conf[i].name = NULL THEN 0
    ELSE IF conf[i].name = key THEN i
    ELSE f[i + 1]
Positions(conf) == 1 .. Len(conf)

\* The steps determine what the search returns from every position.
LEMMA SearchUnique ==
    ASSUME NEW conf \in Tabular, NEW key, NEW f, NEW g,
           f = [i \in Positions(conf) |-> Step(conf, key, f, i)],
           g = [i \in Positions(conf) |-> Step(conf, key, g, i)]
    PROVE  f = g
<1> DEFINE D == {i \in Positions(conf) : f[i] # g[i]}
<1>1. Len(conf) \in Nat /\ conf[Len(conf)].name = NULL
  BY TableEntries
<1>2. ASSUME D # {} PROVE FALSE
  <2>1. D \in SUBSET (1 .. Len(conf))
    BY DEF Positions
  <2>2. PICK i \in D : \A j \in D : j <= i
    BY <1>1, <1>2, <2>1, Greatest
  <2>3. i \in Positions(conf) /\ f[i] # g[i]
    OBVIOUS
  <2>4. f[i] = Step(conf, key, f, i) /\ g[i] = Step(conf, key, g, i)
    BY <2>3
  <2>5. conf[i].name # NULL /\ f[i + 1] # g[i + 1]
    BY <2>3, <2>4 DEF Step
  <2>6. i + 1 \in D
    <3>1. i # Len(conf)
      BY <1>1, <2>5
    <3>2. i + 1 \in Positions(conf)
      BY <1>1, <2>3, <3>1 DEF Positions
    <3>3. QED
      BY <2>5, <3>2
  <2>7. QED
    BY <1>1, <2>1, <2>2, <2>6
<1>3. \A i \in Positions(conf) : f[i] = g[i]
  BY <1>2
<1>4. QED
  BY <1>3

\* Where the search from position i should stop: the first entry of that name,
\* before the end of the table.
FirstAt(conf, key, i) ==
    {j \in i .. Len(conf) :
        /\ conf[j].name = key
        /\ \A k \in i .. j - 1 : conf[k].name \notin {key, NULL}}
FirstFrom(conf, key, i) ==
    IF FirstAt(conf, key, i) = {} THEN 0
    ELSE CHOOSE j \in FirstAt(conf, key, i) : TRUE

LEMMA FirstIsOne ==
    ASSUME NEW conf \in Tabular, NEW key, NEW i \in Nat,
           NEW j \in FirstAt(conf, key, i)
    PROVE  FirstFrom(conf, key, i) = j
<1>1. Len(conf) \in Nat
  BY TableEntries
<1>2. ASSUME NEW a \in FirstAt(conf, key, i), NEW b \in FirstAt(conf, key, i),
             a < b
      PROVE  FALSE
  BY <1>1, <1>2 DEF FirstAt
<1>3. \A k \in FirstAt(conf, key, i) : k = j
  <2>1. FirstAt(conf, key, i) \subseteq Int
    BY <1>1 DEF FirstAt
  <2>2. QED
    BY <1>2, <2>1
<1>4. QED
  BY <1>3 DEF FirstFrom

\* It stops there, step by step.
LEMMA FirstSteps ==
    ASSUME NEW conf \in Tabular, NEW key, key # NULL, NEW i \in Positions(conf),
           NEW f, \A j \in Positions(conf) : f[j] = FirstFrom(conf, key, j)
    PROVE  FirstFrom(conf, key, i) = Step(conf, key, f, i)
<1>1. Len(conf) \in Nat /\ i \in Nat /\ i <= Len(conf)
      /\ conf[Len(conf)].name = NULL
  BY TableEntries DEF Positions
<1>2. CASE conf[i].name = NULL
  <2>1. ASSUME NEW j \in FirstAt(conf, key, i) PROVE FALSE
    <3>1. j = i \/ i \in i .. j - 1
      BY <1>1 DEF FirstAt
    <3>2. QED
      BY <1>2, <3>1 DEF FirstAt
  <2>2. QED
    BY <1>2, <2>1 DEF FirstFrom, Step
<1>3. CASE conf[i].name = key
  <2>1. i \in FirstAt(conf, key, i)
    BY <1>1, <1>3 DEF FirstAt
  <2>2. QED
    BY <1>1, <1>3, <2>1, FirstIsOne DEF Step
<1>4. CASE conf[i].name \notin {key, NULL}
  <2>1. FirstAt(conf, key, i) = FirstAt(conf, key, i + 1)
    <3>1. ASSUME NEW j \in FirstAt(conf, key, i)
          PROVE  j \in FirstAt(conf, key, i + 1)
      BY <1>1, <1>4 DEF FirstAt
    <3>2. ASSUME NEW j \in FirstAt(conf, key, i + 1)
          PROVE  j \in FirstAt(conf, key, i)
      <4>1. \A k \in i .. j - 1 : k = i \/ k \in (i + 1) .. j - 1
        BY <1>1 DEF FirstAt
      <4>2. QED
        BY <1>1, <1>4, <4>1 DEF FirstAt
    <3>3. QED
      BY <3>1, <3>2
  <2>2. i + 1 \in Positions(conf)
    <3>1. i # Len(conf)
      BY <1>1, <1>4
    <3>2. QED
      BY <1>1, <3>1 DEF Positions
  <2>3. QED
    BY <1>1, <1>4, <2>1, <2>2 DEF FirstFrom, Step
<1>5. QED
  BY <1>2, <1>3, <1>4

LEMMA PositionIsFirst ==
    ASSUME NEW conf \in Tabular, NEW key, key # NULL
    PROVE  Position(conf, key) = FirstFrom(conf, key, 1)
<1> DEFINE e(f) == [i \in Positions(conf) |-> Step(conf, key, f, i)]
           from == CHOOSE f : f = e(f)
           g == [i \in Positions(conf) |-> FirstFrom(conf, key, i)]
<1>1. Position(conf, key) = from[1]
  BY DEF Position, Step, Positions
<1>2. g = e(g)
  BY FirstSteps
<1>3. from = e(from)
  BY <1>2
<1>4. from = g
  BY <1>2, <1>3, SearchUnique
<1>5. 1 \in Positions(conf)
  BY TableEntries DEF Positions
<1>6. QED
  BY <1>1, <1>4, <1>5

-----------------------------------------------------------------------------
(* What the search finds.                                                  *)

LEMMA MatchesAreFirst ==
    ASSUME NEW conf \in Tabular, NEW key
    PROVE  Matches(conf, key) = FirstAt(conf, key, 1)
<1>1. DOMAIN conf = 1 .. Len(conf)
  BY TableEntries
<1>2. QED
  BY <1>1 DEF Matches, FirstAt

\* The search by its contract.
LEMMA PositionMatches ==
    ASSUME NEW conf \in Tabular, NEW key, key # NULL
    PROVE  /\ Matches(conf, key) = {} => Position(conf, key) = 0
           /\ \A i \in Matches(conf, key) : Position(conf, key) = i
           /\ Matches(conf, key) \subseteq 1 .. Len(conf)
<1>1. Matches(conf, key) = FirstAt(conf, key, 1)
  BY MatchesAreFirst
<1>2. Position(conf, key) = FirstFrom(conf, key, 1)
  BY PositionIsFirst
<1>3. \A i \in FirstAt(conf, key, 1) : FirstFrom(conf, key, 1) = i
  BY FirstIsOne
<1>4. FirstAt(conf, key, 1) \subseteq 1 .. Len(conf)
  BY DEF FirstAt
<1>5. QED
  BY <1>1, <1>2, <1>3, <1>4 DEF FirstFrom

LEMMA TableType ==
    ASSUME global_config \in Tables PROVE global_config \in Tabular
BY NDConfigAssumption DEF Tabular, Entries

\* cfg_string and cfg_int return what the first entry of that name has.
LEMMA Lookup ==
    ASSUME global_config \in Tables, NEW key, key # NULL
    PROVE  /\ \A default : Str(key, default) =
                              IF Present(key) THEN EntryOf(key).svalue ELSE default
           /\ \A default : Num(key, default) = NumberOf(key, default)
           /\ Str(key, NULL) = TextOf(key)
<1>1. global_config \in Tabular
  BY TableType
<1>2. CASE Present(key)
  <2>1. PICK i \in Matches(global_config, key) : EntryOf(key) = global_config[i]
    BY <1>2 DEF Present, EntryOf
  <2>2. Position(global_config, key) = i /\ i \in 1 .. Len(global_config)
    BY <1>1, PositionMatches
  <2>3. i # 0
    BY <1>1, <2>2, TableEntries
  <2>4. QED
    BY <1>2, <2>1, <2>2, <2>3 DEF Str, Num, cfg_string, cfg_int, NumberOf, TextOf
<1>3. CASE ~Present(key)
  <2>1. Position(global_config, key) = 0
    BY <1>1, <1>3, PositionMatches DEF Present
  <2>2. QED
    BY <1>3, <2>1 DEF Str, Num, cfg_string, cfg_int, NumberOf, TextOf
<1>4. QED
  BY <1>2, <1>3

\* What they return has a type.
LEMMA LookupType ==
    ASSUME global_config \in Tables, NEW key, key # NULL
    PROVE  /\ \A default \in Texts : Str(key, default) \in Texts
           /\ \A default \in Int : Num(key, default) \in Int
<1>1. global_config \in Tabular
  BY TableType
<1>2. CASE Present(key)
  <2>1. PICK i \in 1 .. Len(global_config) : EntryOf(key) = global_config[i]
    BY <1>1, <1>2, PositionMatches DEF Present, EntryOf
  <2>2. EntryOf(key) \in [name : STRING, svalue : STRING, ivalue : Int]
    BY <1>1, <2>1, TableEntries DEF Entries
  <2>3. EntryOf(key).svalue \in Texts
    <3>1. i \in DOMAIN global_config
      BY <1>1, <2>1, TableEntries
    <3>2. EntryOf(key) \in UNION {{t[j] : j \in DOMAIN t} : t \in Tables}
      BY <2>1, <3>1
    <3>3. QED
      BY <3>2 DEF Texts
  <2>4. QED
    BY <1>2, <2>2, <2>3, Lookup DEF NumberOf
<1>3. CASE ~Present(key)
  BY <1>3, Lookup DEF NumberOf
<1>4. QED
  BY <1>2, <1>3

-----------------------------------------------------------------------------
(* The inductive invariant.                                                *)

LoadedMask   == [NoChannels EXCEPT ![0] = Bits(Num("RF_CHANNEL_MASK", 134215680))]
LoadedFields == [Read(BrFields) EXCEPT !.mac_short_adr = ShortAddress]
LoadedMode   == IF Str("PSK_KEY", NULL) = NULL THEN "NONE"
                ELSE LinkMode(Str("SECURITY_MODE", "NONE"))
LoadedSuite  == Suite("PANA", Str("PANA_MODE", "PSK"))
OneChannel   == ChannelsOf(Num("RF_CHANNEL", 0), channel_list.mask)

\* The structures have the members the code gives them.
ShapeInv ==
    /\ backhaul = [autonomous |-> backhaul.autonomous, prefix |-> backhaul.prefix,
                   route |-> backhaul.route]
    /\ channel_list = [page |-> channel_list.page, mask |-> channel_list.mask]
    /\ br = [fields |-> br.fields, network_id |-> br.network_id, prefix |-> br.prefix]
    /\ rpl_setup_info = [instance_id |-> rpl_setup_info.instance_id,
                         prefix      |-> rpl_setup_info.prefix,
                         host        |-> rpl_setup_info.host]
    /\ DOMAIN stack = {"security", "br", "rpl", "dodag", "pana", "channels",
                       "multicast", "up"}

\* What the tasklet keeps of a complete configuration, whatever attempts at
\* starting the mesh have changed of it.
LoadedInv ==
    /\ ~loaded => security.mode = "NONE"
    /\ loaded /\ ReadsTheRest =>
          /\ multicast_addr = Str("MULTICAST_ADDR", NULL)
          /\ Num("RF_CHANNEL", 0) = 0 => channel_list.mask = LoadedMask
          /\ br.fields = LoadedFields
          /\ dodag_config = Read(DodagFields)
          /\ rpl_setup_info.instance_id = InstanceId
          /\ rpl_setup_info.prefix = br.prefix
          /\ rpl_setup_info.host = HostOf(ShortAddress)
          /\ security.mode = LoadedMode
          /\ security.mode = "PANA" => security.suite = LoadedSuite
          /\ security.mode # "NONE" => /\ security.key = Str("PSK_KEY", NULL)
                                       /\ security.key_id = Num("PSK_KEY_ID", 1)

\* The stack of a mesh that is up has what the tasklet keeps.
HandedInv ==
    stack.up =>
        /\ loaded
        /\ stack.br = br /\ stack.rpl = rpl_setup_info /\ stack.dodag = dodag_config
        /\ stack.channels.mask = OneChannel
        /\ stack.multicast = multicast_addr
        /\ stack.security = [mode |-> security.mode, key |-> security.key,
                             key_id |-> security.key_id]
        /\ UsesPana => /\ stack.pana.suite = security.suite
                       /\ stack.pana.key = Str("TLS_PSK_KEY", NULL)
                       /\ stack.pana.key_id = Num("TLS_PSK_KEY_ID", 0)
                       /\ HasTlsKey

IInv == TypeOK /\ ShapeInv /\ LoadedInv /\ HandedInv

-----------------------------------------------------------------------------
(* Types.                                                                  *)

Masks == [ChannelWords -> SUBSET Below(32)]

LEMMA BelowBounds ==
    ASSUME NEW n \in Nat
    PROVE  \A x : x \in Below(n) <=> x \in Int /\ 0 <= x /\ x < n
BY DEF Below

LEMMA KnownTexts ==
    /\ Unspecified \in Texts \ {NULL} /\ NULL \in Texts
    /\ Prefixes \subseteq Texts \ {NULL}
BY NDConfigAssumption DEF Texts

LEMMA MaskTypes ==
    ASSUME global_config \in Tables
    PROVE  /\ NoChannels \in Masks /\ LoadedMask \in Masks
           /\ \A mask \in Masks : ChannelsOf(Num("RF_CHANNEL", 0), mask) \in Masks
<1>1. NoChannels \in Masks
  BY DEF NoChannels, Masks
<1>2. LoadedMask \in Masks
  <2>1. Bits(Num("RF_CHANNEL_MASK", 134215680)) \in SUBSET Below(32)
    BY BelowBounds DEF Bits
  <2>2. 0 \in ChannelWords
    BY BelowBounds DEF ChannelWords
  <2>3. QED
    BY <1>1, <2>1, <2>2 DEF LoadedMask, Masks
<1>3. ASSUME NEW mask \in Masks
      PROVE  ChannelsOf(Num("RF_CHANNEL", 0), mask) \in Masks
  <2> DEFINE c == Num("RF_CHANNEL", 0)
  <2>1. c \in Below(256)
    BY NDConfigAssumption DEF Num
  <2> HIDE DEF c
  <2>2. c \div 32 \in ChannelWords /\ c % 32 \in Below(32)
    <3>1. c \in Int /\ 0 <= c /\ c < 256
      BY <2>1, BelowBounds
    <3>2. c \div 32 \in Int /\ 0 <= c \div 32 /\ c \div 32 < 8
          /\ c % 32 \in Int /\ 0 <= c % 32 /\ c % 32 < 32
      BY <3>1
    <3>3. QED
      BY <3>2, BelowBounds DEF ChannelWords
  <2>3. QED
    BY <1>1, <1>3, <2>2 DEF ChannelsOf, Masks, c
<1>4. QED
  BY <1>1, <1>2, <1>3

LEMMA NumberTypes ==
    ASSUME global_config \in Tables
    PROVE  /\ ShortAddress \in Below(65536) /\ FromBackhaul \in Below(256)
           /\ HostOf(ShortAddress) \in [from : {"zero", "short", "mac"}, address : Below(65534)]
           /\ LoadedFields.mac_short_adr = ShortAddress
<1>1. Read(BrFields).mac_short_adr = Num("SHORT_MAC_ADDRESS", 65535)
  BY DEF Read, BrFields
<1>2. Num("SHORT_MAC_ADDRESS", 65535) \in Int /\ Num("PREFIX_FROM_BACKHAUL", 0) \in Int
  BY LookupType DEF NULL
<1>3. ShortAddress \in Below(65536)
  BY <1>1, <1>2, BelowBounds DEF ShortAddress
<1>4. FromBackhaul \in Below(256)
  BY <1>2, BelowBounds DEF FromBackhaul
<1>5. HostOf(ShortAddress) \in [from : {"zero", "short", "mac"}, address : Below(65534)]
  BY <1>3, BelowBounds DEF HostOf
<1>6. LoadedFields.mac_short_adr = ShortAddress
  BY DEF LoadedFields, Read, BrFields
<1>7. QED
  BY <1>3, <1>4, <1>5, <1>6

LEMMA TextTypes ==
    ASSUME global_config \in Tables, ReadsTheRest
    PROVE  /\ Str("PREFIX", NULL) \in Texts \ {NULL}
           /\ Str("BACKHAUL_PREFIX", NULL) \in Texts \ {NULL}
           /\ Str("MULTICAST_ADDR", NULL) \in Texts \ {NULL}
           /\ OrZero(Str("BACKHAUL_NEXT_HOP", NULL)) \in Texts \ {NULL}
           /\ OrZero(Str("BACKHAUL_DEFAULT_ROUTE", NULL)) \in Texts \ {NULL}
<1>1. ASSUME NEW key, key # NULL PROVE Str(key, NULL) \in Texts
  BY <1>1, LookupType, KnownTexts
<1>2. QED
  BY <1>1, KnownTexts DEF NULL, OrZero, ReadsTheRest, HasBackhaul, HasPrefix

-----------------------------------------------------------------------------
(* load_config and start_6lowpan preserve the invariant.                   *)

\* The table of a build never changes, and with it what is read of it.
LEMMA TableFixed ==
    ASSUME UNCHANGED global_config
    PROVE  /\ \A key, default : /\ Str(key, default)' = Str(key, default)
                                /\ Num(key, default)' = Num(key, default)
           /\ (ReadsTheRest' <=> ReadsTheRest) /\ (HasTlsKey' <=> HasTlsKey)
           /\ LoadedMask' = LoadedMask /\ LoadedFields' = LoadedFields
           /\ ShortAddress' = ShortAddress /\ InstanceId' = InstanceId
           /\ Read(DodagFields)' = Read(DodagFields)
           /\ LoadedMode' = LoadedMode /\ LoadedSuite' = LoadedSuite
<1>1. \A key, default : /\ Str(key, default)' = Str(key, default)
                        /\ Num(key, default)' = Num(key, default)
  BY DEF Str, Num
<1>2. (ReadsTheRest' <=> ReadsTheRest) /\ (HasTlsKey' <=> HasTlsKey)
  BY DEF ReadsTheRest, HasBackhaul, HasPrefix, HasTlsKey, Str
<1>3. LoadedMask' = LoadedMask
  BY DEF LoadedMask, Num
<1>4. ShortAddress' = ShortAddress /\ LoadedFields' = LoadedFields
      /\ InstanceId' = InstanceId /\ Read(DodagFields)' = Read(DodagFields)
  BY DEF ShortAddress, InstanceId, LoadedFields, Read, Num
<1>5. LoadedMode' = LoadedMode /\ LoadedSuite' = LoadedSuite
  BY DEF LoadedMode, LoadedSuite, LinkMode, Suite, Str
<1>6. QED
  BY <1>1, <1>2, <1>3, <1>4, <1>5

LEMMA InitInv == Init => IInv
<1> SUFFICES ASSUME Init PROVE IInv
  OBVIOUS
<1>1. ShapeInv
  BY DEF Init, ShapeInv, NoChannelList, ZeroBr, ZeroRpl
<1>2. LoadedInv /\ HandedInv
  BY DEF Init, LoadedInv, HandedInv
<1>3. TypeOK
  <2>1. Zero(BrFields).mac_short_adr = 0
    BY DEF Zero, BrFields
  <2>2. NoChannels \in Masks
    BY DEF NoChannels, Masks
  <2>3. 0 \in Below(65536) /\ 0 \in Below(256) /\ 0 \in Below(65534)
    BY BelowBounds
  <2>4. /\ backhaul.autonomous \in BOOLEAN
        /\ backhaul.prefix \in Texts \ {NULL}
        /\ backhaul.route \in [next_hop : Texts \ {NULL}, destination : Texts \ {NULL}]
        /\ multicast_addr \in Texts \ {NULL}
    BY KnownTexts DEF Init, NoRoute
  <2>5. channel_list.mask \in Masks /\ stack.channels.mask \in Masks
    BY <2>2 DEF Init, NoChannelList
  <2>6. /\ br.fields.mac_short_adr \in Below(65536) /\ br.prefix \in Texts \ {NULL}
        /\ stack.br.fields.mac_short_adr \in Below(65536)
        /\ stack.br.prefix \in Texts \ {NULL}
    BY <2>1, <2>3, KnownTexts DEF Init, ZeroBr
  <2>7. rpl_setup_info.host \in [from : {"zero", "short", "mac"}, address : Below(65534)]
    BY <2>3 DEF Init, ZeroRpl
  <2>8. /\ global_config \in Tables /\ loaded \in BOOLEAN
        /\ from_backhaul \in Below(256)
        /\ security.mode \in {"NONE", "PSK", "PANA"} /\ stack.up \in BOOLEAN
    <3>1. /\ global_config \in Tables /\ loaded = FALSE /\ from_backhaul = 0
          /\ security.mode = "NONE" /\ stack.up = FALSE
      BY SMTT(5) DEF Init
    <3>2. loaded \in BOOLEAN /\ stack.up \in BOOLEAN
      BY <3>1, Zenon
    <3>3. QED
      BY <2>3, <3>1, <3>2, SMTT(5)
  <2>9. QED
    BY <2>4, <2>5, <2>6, <2>7, <2>8, SMTT(5) DEF TypeOK, Masks
<1>4. QED
  BY <1>1, <1>2, <1>3 DEF IInv

\* What SECURITY_MODE and PSK_KEY make of the security settings.
LEMMA SecuredMode ==
    ASSUME security.mode = "NONE"
    PROVE  /\ Secured.mode \in {"NONE", "PSK", "PANA"}
           /\ Secured.mode # "NONE" => /\ Secured.key = Str("PSK_KEY", NULL)
                                       /\ Secured.key_id = Num("PSK_KEY_ID", 1)
           /\ Secured.mode = LoadedMode
           /\ Secured.mode = "PANA" => Secured.suite = LoadedSuite
BY DEF Secured, WithKey, LinkMode, LoadedMode, LoadedSuite, Suite

\* A complete configuration is loaded.
LEMMA LoadAll ==
    ASSUME IInv, load_config, ReadsTheRest PROVE IInv'
<1> USE DEF IInv
<1>1. LoadTheRest /\ ~loaded /\ loaded' = TRUE /\ UNCHANGED <<global_config, stack>>
  BY DEF load_config
<1>2. ~stack.up /\ security.mode = "NONE"
  BY <1>1 DEF HandedInv, LoadedInv
<1>3. global_config \in Tables
  BY DEF TypeOK
<1>4. br' = [fields     |-> LoadedFields,
             network_id |-> Str("NETWORK_ID", "NETWORK000000000"),
             prefix     |-> Str("PREFIX", NULL)]
  BY <1>1 DEF LoadTheRest, LoadedFields
<1>5. channel_list' = [page |-> Num("RF_CHANNEL_PAGE", 0), mask |-> LoadedMask]
  BY <1>1 DEF LoadTheRest, LoadedMask
<1>6. ShapeInv'
  BY <1>1, <1>4, <1>5 DEF ShapeInv, LoadTheRest
<1>7. HandedInv'
  BY <1>1, <1>2 DEF HandedInv
<1>8. LoadedInv'
  BY <1>1, <1>2, <1>4, <1>5, TableFixed, SecuredMode DEF LoadedInv, LoadTheRest
<1>9. TypeOK'
  <2>1. /\ br'.fields.mac_short_adr \in Below(65536)
        /\ br'.prefix \in Texts \ {NULL}
    BY <1>3, <1>4, NumberTypes, TextTypes
  <2>2. channel_list'.mask \in Masks
    BY <1>3, <1>5, MaskTypes
  <2>3. rpl_setup_info'.host \in [from : {"zero", "short", "mac"}, address : Below(65534)]
    BY <1>1, <1>3, NumberTypes DEF LoadTheRest
  <2>4. security'.mode \in {"NONE", "PSK", "PANA"}
    BY <1>1, <1>2, SecuredMode DEF LoadTheRest
  <2>5. /\ backhaul'.autonomous \in BOOLEAN
        /\ backhaul'.prefix \in Texts \ {NULL}
        /\ backhaul'.route \in [next_hop : Texts \ {NULL}, destination : Texts \ {NULL}]
        /\ multicast_addr' \in Texts \ {NULL}
    BY <1>1, <1>3, TextTypes DEF LoadTheRest
  <2>6. from_backhaul' \in Below(256)
    BY <1>1, <1>3, NumberTypes DEF LoadTheRest
  <2>7. QED
    BY <1>1, <2>1, <2>2, <2>3, <2>4, <2>5, <2>6 DEF TypeOK, Masks
<1>10. QED
  BY <1>6, <1>7, <1>8, <1>9

\* An incomplete one leaves everything but perhaps the prefix of the backhaul.
LEMMA LoadSome ==
    ASSUME IInv, load_config, ~ReadsTheRest PROVE IInv'
<1> USE DEF IInv
<1>1. /\ ~loaded /\ loaded' = TRUE /\ UNCHANGED <<global_config, stack>>
      /\ UNCHANGED <<from_backhaul, multicast_addr, channel_list, br,
                     rpl_setup_info, dodag_config, security>>
  BY DEF load_config
<1>2. \/ backhaul' = backhaul
      \/ /\ backhaul' = [backhaul EXCEPT !.prefix = Str("BACKHAUL_PREFIX", NULL)]
         /\ Str("BACKHAUL_PREFIX", NULL) \in Texts \ {NULL}
  <2>1. Str("BACKHAUL_PREFIX", NULL) \in Texts
    <3>1. "BACKHAUL_PREFIX" # NULL /\ global_config \in Tables
      BY DEF NULL, TypeOK
    <3>2. QED
      BY <3>1, LookupType, KnownTexts
  <2>2. HasBackhaul => Str("BACKHAUL_PREFIX", NULL) # NULL
    BY DEF HasBackhaul
  <2>3. QED
    BY <2>1, <2>2 DEF load_config
<1>3. /\ backhaul' = [autonomous |-> backhaul.autonomous, prefix |-> backhaul'.prefix,
                      route |-> backhaul.route]
      /\ backhaul'.prefix \in Texts \ {NULL}
  BY <1>2 DEF ShapeInv, TypeOK
<1>4. TypeOK'
  BY <1>1, <1>3 DEF TypeOK
<1>5. ShapeInv'
  BY <1>1, <1>3 DEF ShapeInv
<1>6. LoadedInv' /\ HandedInv'
  BY <1>1, TableFixed DEF LoadedInv, HandedInv
<1>7. QED
  BY <1>4, <1>5, <1>6

\* What an attempt at starting the mesh hands over, if n calls succeed.
LEMMA HandedFields ==
    ASSUME ShapeInv, NEW n \in 0 .. 7, NEW p, stack' = HandedOver(n, p)
    PROVE  /\ DOMAIN stack' = DOMAIN stack
           /\ stack'.up = (n = 7)
           /\ stack'.br = IF n >= 3 THEN BrAfter(n, p) ELSE stack.br
           /\ stack'.channels = IF n >= 6 THEN channel_list' ELSE stack.channels
           /\ n = 7 => /\ stack'.rpl = RplAfter(n, p)
                       /\ stack'.dodag = dodag_config
                       /\ stack'.multicast = multicast_addr
                       /\ stack'.security = [mode |-> security.mode,
                                             key |-> security.key,
                                             key_id |-> security.key_id]
                       /\ UsesPana => stack'.pana =
                             [suite  |-> security.suite,
                              key    |-> Str("TLS_PSK_KEY", NULL),
                              key_id |-> Num("TLS_PSK_KEY_ID", 0)]
<1>1. DOMAIN stack = {"security", "br", "rpl", "dodag", "pana", "channels",
                      "multicast", "up"}
  BY DEF ShapeInv
<1>2. DOMAIN stack' = DOMAIN stack
  BY DEF HandedOver
<1>3. stack'.up = (n = 7)
  BY <1>1 DEF HandedOver
<1>4. /\ stack'.br = IF n >= 3 THEN BrAfter(n, p) ELSE stack.br
      /\ stack'.channels = IF n >= 6 THEN channel_list' ELSE stack.channels
  BY <1>1 DEF HandedOver
<1>5. ASSUME n = 7
      PROVE  /\ stack'.rpl = RplAfter(n, p)
             /\ stack'.dodag = dodag_config
             /\ stack'.multicast = multicast_addr
             /\ stack'.security = [mode |-> security.mode, key |-> security.key,
                                   key_id |-> security.key_id]
             /\ UsesPana => stack'.pana =
                   [suite  |-> security.suite, key |-> Str("TLS_PSK_KEY", NULL),
                    key_id |-> Num("TLS_PSK_KEY_ID", 0)]
  BY <1>1, <1>5 DEF HandedOver
<1>6. QED
  BY <1>2, <1>3, <1>4, <1>5

LEMMA StartInv == ASSUME IInv, start_6lowpan PROVE IInv'
<1> USE DEF IInv
<1>1. PICK n \in 0 .. 7, p \in Prefixes :
        /\ n >= 5 /\ UsesPana => HasTlsKey
        /\ br' = BrAfter(n, p)
        /\ rpl_setup_info' = RplAfter(n, p)
        /\ stack' = HandedOver(n, p)
  BY DEF start_6lowpan
<1>2. /\ loaded /\ ~stack.up /\ global_config \in Tables
      /\ UNCHANGED <<global_config, loaded, backhaul, from_backhaul,
                     multicast_addr, dodag_config, security>>
  BY DEF start_6lowpan, TypeOK
<1>3. channel_list' = [page |-> channel_list.page, mask |-> OneChannel]
  BY DEF start_6lowpan, OneChannel, ShapeInv
<1>4. \/ br' = br /\ rpl_setup_info' = rpl_setup_info
      \/ /\ br' = [fields |-> br.fields, network_id |-> br.network_id, prefix |-> p]
         /\ rpl_setup_info' = [instance_id |-> rpl_setup_info.instance_id,
                               prefix      |-> p,
                               host        |-> rpl_setup_info.host]
  BY <1>1 DEF BrAfter, RplAfter, ShapeInv
<1>5. br'.fields = br.fields /\ rpl_setup_info'.instance_id = rpl_setup_info.instance_id
      /\ rpl_setup_info'.host = rpl_setup_info.host
  BY <1>4
<1>6. OneChannel \in Masks
  BY <1>2, MaskTypes DEF OneChannel, TypeOK, Masks
<1>7. ShapeInv'
  BY <1>1, <1>2, <1>3, <1>4, HandedFields DEF ShapeInv
<1>8. LoadedInv'
  <2>1. Num("RF_CHANNEL", 0) = 0 => OneChannel = channel_list.mask
    BY DEF OneChannel, ChannelsOf
  <2>2. rpl_setup_info.prefix = br.prefix => rpl_setup_info'.prefix = br'.prefix
    BY <1>4
  <2>3. QED
    BY <1>2, <1>3, <1>5, <2>1, <2>2, TableFixed DEF LoadedInv
<1>9. HandedInv'
  <2>1. CASE n # 7
    BY <1>1, <2>1, HandedFields DEF HandedInv
  <2>2. CASE n = 7
    <3>1. /\ stack'.br = br' /\ stack'.rpl = rpl_setup_info'
          /\ stack'.dodag = dodag_config /\ stack'.channels = channel_list'
          /\ stack'.multicast = multicast_addr
          /\ stack'.security = [mode |-> security.mode, key |-> security.key,
                                key_id |-> security.key_id]
          /\ UsesPana => stack'.pana =
                [suite  |-> security.suite, key |-> Str("TLS_PSK_KEY", NULL),
                 key_id |-> Num("TLS_PSK_KEY_ID", 0)]
      BY <1>1, <2>2, HandedFields
    <3>2. OneChannel' = OneChannel
      BY <1>2, <1>3, TableFixed DEF OneChannel, ChannelsOf
    <3>3. stack'.channels.mask = OneChannel'
      BY <1>3, <3>1, <3>2
    <3>4. UsesPana' = UsesPana
      BY <1>2 DEF UsesPana
    <3>5. UsesPana => /\ stack'.pana.suite = security.suite
                      /\ stack'.pana.key = Str("TLS_PSK_KEY", NULL)
                      /\ stack'.pana.key_id = Num("TLS_PSK_KEY_ID", 0)
                      /\ HasTlsKey
      BY <1>1, <2>2, <3>1
    <3>6. QED
      BY <1>2, <3>1, <3>3, <3>4, <3>5, TableFixed DEF HandedInv
  <2>3. QED
    BY <2>1, <2>2
<1>10. TypeOK'
  <2>1. /\ br'.fields.mac_short_adr \in Below(65536) /\ br'.prefix \in Texts \ {NULL}
        /\ stack'.br \in {br', stack.br}
    <3>1. br'.prefix \in {br.prefix, p}
      BY <1>4
    <3>2. stack'.br \in {br', stack.br}
      BY <1>1, HandedFields
    <3>3. p \in Texts \ {NULL}
      BY KnownTexts
    <3>4. QED
      BY <1>5, <3>1, <3>2, <3>3 DEF TypeOK
  <2>2. stack'.channels \in {channel_list', stack.channels} /\ stack'.up \in BOOLEAN
    BY <1>1, HandedFields
  <2>3. channel_list'.mask \in Masks
    BY <1>3, <1>6
  <2>4. QED
    BY <1>2, <1>5, <2>1, <2>2, <2>3 DEF TypeOK, Masks
<1>11. QED
  BY <1>7, <1>8, <1>9, <1>10

LEMMA Invariance == Spec => []IInv
<1>1. IInv /\ [Next]_vars => IInv'
  <2> SUFFICES ASSUME IInv, [Next]_vars PROVE IInv'
    OBVIOUS
  <2>1. CASE load_config
    BY <2>1, LoadAll, LoadSome
  <2>2. CASE start_6lowpan
    BY <2>2, StartInv
  <2>3. CASE UNCHANGED vars
    <3>1. /\ UNCHANGED <<global_config, loaded, stack, from_backhaul, multicast_addr>>
          /\ UNCHANGED <<backhaul, channel_list, br, rpl_setup_info, dodag_config,
                         security>>
      BY <2>3 DEF vars, structures
    <3>2. TypeOK' /\ ShapeInv'
      BY <3>1 DEF IInv, TypeOK, ShapeInv
    <3>3. OneChannel' = OneChannel /\ UsesPana' = UsesPana
      BY <3>1, TableFixed DEF OneChannel, ChannelsOf, UsesPana
    <3>4. LoadedInv' /\ HandedInv'
      BY <3>1, <3>3, TableFixed DEF IInv, LoadedInv, HandedInv
    <3>5. QED
      BY <3>2, <3>4 DEF IInv
  <2>4. QED
    BY <2>1, <2>2, <2>3 DEF Next
<1>2. QED
  BY <1>1, InitInv, PTL DEF Spec

-----------------------------------------------------------------------------
(* The theorems.                                                           *)

\* Every structure of the tasklet keeps its type: the settings are never the
\* NULL of a missing key, the short address and the flag that is copied from the
\* table fit their 16 and 8 bits, and the masks have eight words of 32 bits.
THEOREM TypeCorrect == Spec => []TypeOK
<1>1. IInv => TypeOK
  BY DEF IInv
<1>2. QED
  BY <1>1, Invariance, PTL

\* cfg_string and cfg_int find the first entry of a name, and none behind the
\* end, in every table.
THEOREM LookupCorrect == Spec => []LookupIsFirstMatch
<1>1. IInv => LookupIsFirstMatch
  <2> SUFFICES ASSUME IInv, NEW key, key # NULL
               PROVE  LET i == Position(global_config, key) IN
                      IF Matches(global_config, key) = {}
                      THEN i = 0 ELSE i \in Matches(global_config, key)
    BY DEF LookupIsFirstMatch
  <2>1. global_config \in Tabular
    BY TableType DEF IInv, TypeOK
  <2>2. QED
    BY <2>1, PositionMatches
<1>2. QED
  BY <1>1, Invariance, PTL

\* A configuration is complete if load_config reads it to its end.
LEMMA CompleteIsRead ==
    ASSUME global_config \in Tables PROVE Complete <=> ReadsTheRest
<1>1. \A key \in {"PREFIX", "BACKHAUL_PREFIX", "MULTICAST_ADDR"} :
          Str(key, NULL) = TextOf(key)
  BY Lookup DEF NULL
<1>2. QED
  BY <1>1 DEF Complete, ReadsTheRest, HasBackhaul, HasPrefix

\* The DODAG id the mesh runs with is an address of the border router: the
\* prefix is the mesh's, whatever earlier attempts took for it, and the host half
\* belongs to the short address the stack was given.
THEOREM OwnAddress == Spec => []DodagIdIsOwnAddress
<1>1. IInv => DodagIdIsOwnAddress
  <2> SUFFICES ASSUME IInv, stack.up, ReadsTheRest
               PROVE  /\ stack.rpl.prefix = stack.br.prefix
                      /\ LET short == stack.br.fields.mac_short_adr IN
                         stack.rpl.host = IF short \in {65534, 65535}
                                          THEN [from |-> "mac", address |-> 0]
                                          ELSE [from |-> "short", address |-> short]
    BY DEF DodagIdIsOwnAddress
  <2>1. loaded /\ stack.br = br /\ stack.rpl = rpl_setup_info
    BY DEF IInv, HandedInv
  <2>2. /\ rpl_setup_info.prefix = br.prefix /\ br.fields = LoadedFields
        /\ rpl_setup_info.host = HostOf(ShortAddress)
    BY <2>1 DEF IInv, LoadedInv
  <2>3. LoadedFields.mac_short_adr = ShortAddress /\ ShortAddress \in Below(65536)
    BY NumberTypes DEF IInv, TypeOK
  <2>4. ShortAddress < 65534 <=> ShortAddress \notin {65534, 65535}
    BY <2>3, BelowBounds
  <2>5. QED
    BY <2>1, <2>2, <2>3, <2>4 DEF HostOf
<1>2. QED
  BY <1>1, Invariance, PTL

\* The options load_config reads, as the table documents them.
LEMMA OptionsRead ==
    ASSUME global_config \in Tables
    PROVE  /\ \A f \in DOMAIN DocumentedDodag :
                  Read(DodagFields)[f] = DocumentedDodag[f]
           /\ \A f \in DOMAIN DocumentedBr : LoadedFields[f] = DocumentedBr[f]
<1>1. ASSUME NEW key, key # NULL, NEW default
      PROVE  Num(key, default) = NumberOf(key, default)
  BY <1>1, Lookup
<1>2. \A f \in DOMAIN DocumentedDodag : Read(DodagFields)[f] = DocumentedDodag[f]
  BY <1>1 DEF DocumentedDodag, Read, DodagFields, NULL
<1>3. \A f \in DOMAIN DocumentedBr : LoadedFields[f] = DocumentedBr[f]
  <2>1. /\ DOMAIN BrFields = {"mac_panid", "mac_short_adr", "ra_life_time",
                              "beacon_protocol_id"}
        /\ BrFields.ra_life_time = <<"RA_ROUTER_LIFETIME", 1024>>
        /\ BrFields.beacon_protocol_id = <<"BEACON_PROTOCOL_ID", 4>>
    BY SMTT(5) DEF BrFields
  <2>2. /\ LoadedFields.ra_life_time = Num("RA_ROUTER_LIFETIME", 1024)
        /\ LoadedFields.beacon_protocol_id = Num("BEACON_PROTOCOL_ID", 4)
    BY <2>1, SMTT(5) DEF LoadedFields, Read
  <2>3. /\ Num("RA_ROUTER_LIFETIME", 1024) = NumberOf("RA_ROUTER_LIFETIME", 1024)
        /\ Num("BEACON_PROTOCOL_ID", 4) = NumberOf("BEACON_PROTOCOL_ID", 4)
    BY <1>1, SMTT(5) DEF NULL
  <2>4. QED
    BY <2>2, <2>3, SMTT(5) DEF DocumentedBr
<1>4. QED
  BY <1>2, <1>3

\* The mode and the PANA suite that are loaded are those of the table.
LEMMA SecurityRead ==
    ASSUME global_config \in Tables
    PROVE  LoadedMode = ConfiguredMode /\ LoadedSuite = ConfiguredSuite
<1>1. Str("PSK_KEY", NULL) = TextOf("PSK_KEY")
  BY Lookup DEF NULL
<1>2. Str("SECURITY_MODE", "NONE") =
         IF Present("SECURITY_MODE") THEN TextOf("SECURITY_MODE") ELSE "NONE"
  BY Lookup DEF NULL, TextOf
<1>3. ~Present("SECURITY_MODE") => TextOf("SECURITY_MODE") \notin {"PSK", "PANA"}
  BY DEF TextOf, NULL
<1>4. LoadedMode = ConfiguredMode
  BY <1>1, <1>2, <1>3 DEF LoadedMode, ConfiguredMode, LinkMode
<1>5. Str("PANA_MODE", "PSK") =
         IF Present("PANA_MODE") THEN TextOf("PANA_MODE") ELSE "PSK"
  BY Lookup DEF NULL, TextOf
<1>6. ~Present("PANA_MODE") => TextOf("PANA_MODE") \notin {"ECC", "ECC+PSK"}
  BY DEF TextOf, NULL
<1>7. LoadedSuite = ConfiguredSuite
  BY <1>5, <1>6 DEF LoadedSuite, ConfiguredSuite, Suite
<1>8. QED
  BY <1>4, <1>7

\* The lifetimes, each from the key of one of them.
LEMMA LifetimesRead ==
    ASSUME global_config \in Tables, stack.dodag = Read(DodagFields),
           Present("RPL_DEFAULT_LIFETIME"), Present("RPL_LIFETIME_UNIT")
    PROVE  LifetimesAre(EntryOf("RPL_DEFAULT_LIFETIME").ivalue,
                        EntryOf("RPL_LIFETIME_UNIT").ivalue)
<1>1. /\ Num("RPL_DEFAULT_LIFETIME", 60) = EntryOf("RPL_DEFAULT_LIFETIME").ivalue
      /\ Num("RPL_LIFETIME_UNIT", 64) = EntryOf("RPL_LIFETIME_UNIT").ivalue
  BY Lookup DEF NULL, NumberOf
<1>2. /\ Read(DodagFields).LIFE_IN_SECONDS = Num("RPL_LIFETIME_UNIT", 64)
      /\ Read(DodagFields).LIFETIME_UNIT = Num("RPL_DEFAULT_LIFETIME", 60)
  BY DEF Read, DodagFields
<1>3. QED
  BY <1>1, <1>2 DEF LifetimesAre

\* A mesh that was started from a table with PREFIX, BACKHAUL_PREFIX and
\* MULTICAST_ADDR has the options of that table that OptionsReachMesh lists
\* (load_config and start_6lowpan), for every such table and after any attempts
\* that stopped half-way.  The default of a lifetime is not among them: see
\* RplLifetimesDocumented.
THEOREM OptionsCorrect == Spec => []OptionsReachMesh
<1>1. IInv => OptionsReachMesh
  <2> SUFFICES ASSUME IInv, stack.up, Complete PROVE OptionsReachMesh
    BY DEF OptionsReachMesh
  <2>1. global_config \in Tables
    BY DEF IInv, TypeOK
  <2>2. loaded /\ ReadsTheRest
    BY <2>1, CompleteIsRead DEF IInv, HandedInv
  <2>3. /\ stack.br = br /\ stack.rpl = rpl_setup_info /\ stack.dodag = dodag_config
        /\ stack.multicast = multicast_addr
        /\ stack.security = [mode |-> security.mode, key |-> security.key,
                             key_id |-> security.key_id]
        /\ UsesPana => /\ stack.pana.suite = security.suite
                       /\ stack.pana.key = Str("TLS_PSK_KEY", NULL)
                       /\ stack.pana.key_id = Num("TLS_PSK_KEY_ID", 0)
                       /\ HasTlsKey
    BY DEF IInv, HandedInv
  <2>4. /\ multicast_addr = Str("MULTICAST_ADDR", NULL)
        /\ br.fields = LoadedFields /\ dodag_config = Read(DodagFields)
        /\ rpl_setup_info.instance_id = InstanceId
        /\ security.mode = LoadedMode
        /\ security.mode = "PANA" => security.suite = LoadedSuite
        /\ security.mode # "NONE" => /\ security.key = Str("PSK_KEY", NULL)
                                     /\ security.key_id = Num("PSK_KEY_ID", 1)
    BY <2>2 DEF IInv, LoadedInv
  <2>5. /\ InstanceId = NumberOf("RPL_INSTANCE_ID", 1) % 256
        /\ Num("PSK_KEY_ID", 1) = NumberOf("PSK_KEY_ID", 1)
        /\ Num("TLS_PSK_KEY_ID", 0) = NumberOf("TLS_PSK_KEY_ID", 0)
        /\ Str("MULTICAST_ADDR", NULL) = TextOf("MULTICAST_ADDR")
        /\ Str("PSK_KEY", NULL) = TextOf("PSK_KEY")
        /\ Str("TLS_PSK_KEY", NULL) = TextOf("TLS_PSK_KEY")
    BY <2>1, Lookup DEF NULL, InstanceId
  <2>6. /\ \A f \in DOMAIN DocumentedDodag : stack.dodag[f] = DocumentedDodag[f]
        /\ \A f \in DOMAIN DocumentedBr : stack.br.fields[f] = DocumentedBr[f]
    BY <2>1, <2>3, <2>4, OptionsRead
  <2>7. Present("RPL_DEFAULT_LIFETIME") /\ Present("RPL_LIFETIME_UNIT") =>
           LifetimesAre(EntryOf("RPL_DEFAULT_LIFETIME").ivalue,
                        EntryOf("RPL_LIFETIME_UNIT").ivalue)
    BY <2>1, <2>3, <2>4, LifetimesRead
  <2>8. /\ stack.rpl.instance_id = NumberOf("RPL_INSTANCE_ID", 1) % 256
        /\ stack.multicast = TextOf("MULTICAST_ADDR")
    BY <2>3, <2>4, <2>5
  <2>9. /\ stack.security.mode = security.mode
        /\ security.mode = ConfiguredMode
        /\ security.mode = "PANA" => security.suite = ConfiguredSuite
    BY <2>1, <2>3, <2>4, SecurityRead
  <2>10. stack.security.mode # "NONE" =>
            /\ stack.security.key = TextOf("PSK_KEY")
            /\ stack.security.key_id = NumberOf("PSK_KEY_ID", 1)
    BY <2>3, <2>4, <2>5
  <2>11. stack.security.mode = "PANA" =>
            /\ stack.pana.suite = ConfiguredSuite
            /\ stack.pana.key = TextOf("TLS_PSK_KEY") /\ stack.pana.key # NULL
            /\ stack.pana.key_id = NumberOf("TLS_PSK_KEY_ID", 0)
    BY <2>3, <2>5, <2>9 DEF UsesPana, HasTlsKey
  <2>12. QED
    BY <2>6, <2>7, <2>8, <2>9, <2>10, <2>11 DEF OptionsReachMesh
<1>2. QED
  BY <1>1, Invariance, PTL

\* A channel is enabled if its word of the mask has its bit.
LEMMA WordAndBit ==
    ASSUME NEW c \in Below(256)
    PROVE  /\ c \div 32 \in ChannelWords /\ c % 32 \in Below(32)
           /\ c = 32 * (c \div 32) + (c % 32)
<1>1. c \in Int /\ 0 <= c /\ c < 256
  BY BelowBounds
<1>2. /\ c \div 32 \in Int /\ 0 <= c \div 32 /\ c \div 32 < 8
      /\ c % 32 \in Int /\ 0 <= c % 32 /\ c % 32 < 32
      /\ c = 32 * (c \div 32) + (c % 32)
  BY <1>1, SMTT(5)
<1>3. QED
  BY <1>2, BelowBounds DEF ChannelWords

LEMMA EnabledBits ==
    ASSUME NEW mask
    PROVE  \A c : c \in Enabled(mask) <=>
                     c \in Below(256) /\ c % 32 \in mask[c \div 32]
<1>1. \A c \in Below(256) : c \in {32 * w + b : w \in ChannelWords, b \in Below(32)}
  BY WordAndBit
<1>2. QED
  BY <1>1 DEF Enabled

\* The channels of a mask in which only RF_CHANNEL, or only the first word, is set.
LEMMA OneEnabled ==
    ASSUME NEW channel \in Below(256)
    PROVE  Enabled([NoChannels EXCEPT ![channel \div 32] = {channel % 32}]) = {channel}
<1> DEFINE mask == [NoChannels EXCEPT ![channel \div 32] = {channel % 32}]
<1>1. ASSUME NEW w \in ChannelWords
      PROVE  mask[w] = IF w = channel \div 32 THEN {channel % 32} ELSE {}
  BY DEF NoChannels
<1> HIDE DEF mask
<1>2. ASSUME NEW c \in Below(256)
      PROVE  c % 32 \in mask[c \div 32] <=> c = channel
  <2>1. c % 32 \in mask[c \div 32] <=>
           c \div 32 = channel \div 32 /\ c % 32 = channel % 32
    BY <1>1, WordAndBit
  <2>2. c \div 32 = channel \div 32 /\ c % 32 = channel % 32 <=> c = channel
    BY WordAndBit
  <2>3. QED
    BY <2>1, <2>2
<1>3. Enabled(mask) = {channel}
  BY <1>2, EnabledBits
<1>4. QED
  BY <1>3 DEF mask

LEMMA FirstWordEnabled ==
    ASSUME NEW bits \in SUBSET Below(31)
    PROVE  Enabled([NoChannels EXCEPT ![0] = bits]) = bits
<1> DEFINE mask == [NoChannels EXCEPT ![0] = bits]
<1>1. ASSUME NEW w \in ChannelWords
      PROVE  mask[w] = IF w = 0 THEN bits ELSE {}
  BY DEF NoChannels
<1> HIDE DEF mask
<1>2. ASSUME NEW c \in Below(256)
      PROVE  c % 32 \in mask[c \div 32] <=> c \in bits
  <2>1. c % 32 \in mask[c \div 32] <=> c \div 32 = 0 /\ c % 32 \in bits
    BY <1>1, WordAndBit
  <2>2. c \div 32 = 0 <=> c < 32
    BY BelowBounds, SMTT(5)
  <2>3. c < 32 => c % 32 = c
    BY BelowBounds, SMTT(5)
  <2>4. c \in bits => c < 32
    BY BelowBounds
  <2>5. QED
    BY <2>1, <2>2, <2>3, <2>4
<1>3. bits \subseteq Below(256)
  BY BelowBounds
<1>4. \A c : c \in Enabled(mask) <=> c \in bits
  BY <1>2, <1>3, EnabledBits, Zenon
<1>5. QED
  BY <1>4 DEF mask

\* The mesh is started on RF_CHANNEL, or on the channels of RF_CHANNEL_MASK.
THEOREM ChannelsCorrect == Spec => []ChannelsAsConfigured
<1>1. IInv => ChannelsAsConfigured
  <2> DEFINE channel == Num("RF_CHANNEL", 0)
             bits == Bits(Num("RF_CHANNEL_MASK", 134215680))
  <2> SUFFICES ASSUME IInv, stack.up, Complete PROVE ChannelsAsConfigured
    BY DEF ChannelsAsConfigured
  <2>1. global_config \in Tables
    BY DEF IInv, TypeOK
  <2>2. channel \in Below(256)
    BY <2>1, NDConfigAssumption DEF Num
  <2>3. /\ NumberOf("RF_CHANNEL", 0) = channel
        /\ Bits(NumberOf("RF_CHANNEL_MASK", 134215680)) = bits
    BY <2>1, Lookup DEF NULL
  <2>4. loaded /\ ReadsTheRest /\ stack.channels.mask = OneChannel
    BY <2>1, CompleteIsRead DEF IInv, HandedInv
  <2>5. channel = 0 => channel_list.mask = LoadedMask
    BY <2>4 DEF IInv, LoadedInv
  <2>6. bits \in SUBSET Below(31)
    BY BelowBounds DEF Bits
  <2>7. LoadedMask = [NoChannels EXCEPT ![0] = bits]
    BY DEF LoadedMask
  <2>8. OneChannel = IF channel > 0
                     THEN [NoChannels EXCEPT ![channel \div 32] = {channel % 32}]
                     ELSE channel_list.mask
    BY DEF OneChannel, ChannelsOf
  <2> HIDE DEF channel, bits
  <2>9. Enabled(stack.channels.mask) = IF channel > 0 THEN {channel} ELSE bits
    <3>1. channel > 0 \/ channel = 0
      BY <2>2, BelowBounds
    <3>2. CASE channel > 0
      BY <2>2, <2>4, <2>8, <3>2, OneEnabled
    <3>3. CASE channel = 0
      <4>1. stack.channels.mask = [NoChannels EXCEPT ![0] = bits]
        BY <2>4, <2>5, <2>7, <2>8, <3>3, SMTT(5)
      <4>2. Enabled(stack.channels.mask) = bits
        BY <2>6, <4>1, FirstWordEnabled, Zenon
      <4>3. QED
        BY <3>3, <4>2
    <3>4. QED
      BY <3>1, <3>2, <3>3
  <2>10. QED
    BY <2>3, <2>9 DEF ChannelsAsConfigured
<1>2. QED
  BY <1>1, Invariance, PTL

-----------------------------------------------------------------------------
(* load_config is the one of NDBorderRouter.                               *)

\* The record NDBorderRouter reads has what load_config finds in the table.
Record ==
    [PREFIX |-> TextOf("PREFIX"),
     BACKHAUL_PREFIX |-> TextOf("BACKHAUL_PREFIX"),
     MULTICAST_ADDR |-> TextOf("MULTICAST_ADDR") # NULL,
     BACKHAUL_DYNAMIC_BOOTSTRAP |-> NumberOf("BACKHAUL_DYNAMIC_BOOTSTRAP", 0) # 0,
     PREFIX_FROM_BACKHAUL |-> NumberOf("PREFIX_FROM_BACKHAUL", 0) % 256 # 0,
     SECURITY_MODE |-> IF Present("SECURITY_MODE")
                       THEN Known(TextOf("SECURITY_MODE")) ELSE "NONE",
     PSK_KEY |-> TextOf("PSK_KEY") # NULL,
     TLS_PSK_KEY |-> TextOf("TLS_PSK_KEY") # NULL]

LEMMA RecordRead ==
    ASSUME global_config \in Tables
    PROVE  /\ ND!HasBackhaul(Record) <=> HasBackhaul
           /\ ND!ReadsTheRest(Record) <=> ReadsTheRest
           /\ Record.PREFIX = Str("PREFIX", NULL)
           /\ Record.BACKHAUL_PREFIX = Str("BACKHAUL_PREFIX", NULL)
           /\ Record.BACKHAUL_DYNAMIC_BOOTSTRAP
                 = (Num("BACKHAUL_DYNAMIC_BOOTSTRAP", 0) # 0)
           /\ Record.PREFIX_FROM_BACKHAUL = (FromBackhaul # 0)
           /\ ND!SecurityOf(Record) = LoadedMode
<1>1. \A key \in {"PREFIX", "BACKHAUL_PREFIX", "MULTICAST_ADDR", "PSK_KEY"} :
          Str(key, NULL) = TextOf(key)
  BY Lookup DEF NULL
<1>2. /\ Num("BACKHAUL_DYNAMIC_BOOTSTRAP", 0) = NumberOf("BACKHAUL_DYNAMIC_BOOTSTRAP", 0)
      /\ Num("PREFIX_FROM_BACKHAUL", 0) = NumberOf("PREFIX_FROM_BACKHAUL", 0)
  BY Lookup DEF NULL
<1>3. Str("SECURITY_MODE", "NONE") =
         IF Present("SECURITY_MODE") THEN TextOf("SECURITY_MODE") ELSE "NONE"
  BY Lookup DEF NULL, TextOf
<1>4. /\ Record.PREFIX = Str("PREFIX", NULL)
      /\ Record.BACKHAUL_PREFIX = Str("BACKHAUL_PREFIX", NULL)
      /\ Record.MULTICAST_ADDR = (Str("MULTICAST_ADDR", NULL) # NULL)
      /\ Record.PSK_KEY = (Str("PSK_KEY", NULL) # NULL)
  BY <1>1 DEF Record
<1>5. /\ Record.BACKHAUL_DYNAMIC_BOOTSTRAP = (Num("BACKHAUL_DYNAMIC_BOOTSTRAP", 0) # 0)
      /\ Record.PREFIX_FROM_BACKHAUL = (FromBackhaul # 0)
  BY <1>2 DEF Record, FromBackhaul
<1>6. /\ ND!HasBackhaul(Record) <=> HasBackhaul
      /\ ND!ReadsTheRest(Record) <=> ReadsTheRest
  BY <1>4 DEF ND!HasBackhaul, ND!HasPrefix, ND!ReadsTheRest, ND!Missing, NULL,
              HasBackhaul, HasPrefix, ReadsTheRest
<1>7. Record.SECURITY_MODE = Known(Str("SECURITY_MODE", "NONE"))
  BY <1>3 DEF Record, Known
<1>8. ND!SecurityOf(Record) = LoadedMode
  BY <1>4, <1>7 DEF ND!SecurityOf, Known, LinkMode, LoadedMode
<1>9. QED
  BY <1>4, <1>5, <1>6, <1>8

\* What load_config makes of a table is what NDBorderRouter says it makes of
\* the record the table stands for: the same settings, the same prefixes and
\* the same early returns.
THEOREM LoadImplements == Spec => ImplementsNDLoadConfig
<1>1. ASSUME IInv, load_config PROVE ND!load_config
  <2>1. global_config \in Tables /\ security.mode = "NONE"
    BY <1>1 DEF IInv, TypeOK, LoadedInv, load_config
  <2>2. CASE ReadsTheRest
    <3>1. /\ LoadTheRest /\ HasBackhaul
          /\ br'.prefix = Str("PREFIX", NULL)
          /\ rpl_setup_info'.prefix = Str("PREFIX", NULL)
          /\ backhaul'.prefix = Str("BACKHAUL_PREFIX", NULL)
          /\ backhaul'.autonomous = (Num("BACKHAUL_DYNAMIC_BOOTSTRAP", 0) # 0)
          /\ from_backhaul' = FromBackhaul /\ security' = Secured
      <4>1. LoadTheRest /\ HasBackhaul
        BY <1>1, <2>2, SMTT(5) DEF load_config, ReadsTheRest
      <4>2. br' = [fields     |-> LoadedFields,
                   network_id |-> Str("NETWORK_ID", "NETWORK000000000"),
                   prefix     |-> Str("PREFIX", NULL)]
        BY <4>1, SMTT(5) DEF LoadTheRest, LoadedFields
      <4>3. /\ rpl_setup_info'.prefix = Str("PREFIX", NULL)
            /\ backhaul'.prefix = Str("BACKHAUL_PREFIX", NULL)
            /\ backhaul'.autonomous = (Num("BACKHAUL_DYNAMIC_BOOTSTRAP", 0) # 0)
            /\ from_backhaul' = FromBackhaul /\ security' = Secured
        BY <4>1, SMTT(5) DEF LoadTheRest
      <4>4. QED
        BY <4>1, <4>2, <4>3, SMTT(5)
    <3>2. security'.mode = ND!SecurityOf(Record)
      BY <2>1, <3>1, SecuredMode, RecordRead
    <3>3. [autonomous |-> backhaul'.autonomous, from_backhaul |-> from_backhaul' # 0,
           security |-> security'.mode]
            = [autonomous |-> Record.BACKHAUL_DYNAMIC_BOOTSTRAP,
               from_backhaul |-> Record.PREFIX_FROM_BACKHAUL,
               security |-> ND!SecurityOf(Record)]
      BY <2>1, <3>1, <3>2, RecordRead, Zenon
    <3>4. QED
      BY <2>1, <2>2, <3>1, <3>3, RecordRead, Zenon DEF ND!load_config, Record
  <2>3. CASE ~ReadsTheRest
    <3>1. /\ backhaul'.prefix = IF HasBackhaul THEN Str("BACKHAUL_PREFIX", NULL)
                                ELSE backhaul.prefix
          /\ backhaul'.autonomous = backhaul.autonomous
          /\ UNCHANGED <<from_backhaul, br, rpl_setup_info, security>>
      BY <1>1, <2>3 DEF load_config, IInv, ShapeInv
    <3>2. [autonomous |-> backhaul'.autonomous, from_backhaul |-> from_backhaul' # 0,
           security |-> security'.mode]
            = [autonomous |-> backhaul.autonomous, from_backhaul |-> from_backhaul # 0,
               security |-> security.mode]
      BY <3>1, Zenon
    <3>3. QED
      BY <2>1, <2>3, <3>1, <3>2, RecordRead, Zenon DEF ND!load_config, Record
  <2>4. QED
    BY <2>2, <2>3
<1>2. IInv /\ [Next]_vars => [~loaded /\ loaded' => ND!load_config]_vars
  <2>1. ASSUME start_6lowpan, ~loaded PROVE FALSE
    BY <2>1 DEF start_6lowpan
  <2>2. QED
    BY <1>1, <2>1 DEF Next
<1>3. QED
  BY <1>2, Invariance, PTL DEF Spec, ImplementsNDLoadConfig
=============================================================================
