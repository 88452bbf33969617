----------------------------- MODULE MCNDConfig -----------------------------
(* Instances of NDConfig for TLC.                                           *)
EXTENDS NDConfig

Number(name, value) == Entry(name, NULL, value)
Text(name, value)   == Entry(name, value, 0)

\* A table with every key of static_6lowpan_config.h but the short address and
\* the key ids, no integer at its default.
Base ==
    <<Text("SECURITY_MODE", "NONE"), Text("PANA_MODE", "ECC"),
      Text("PSK_KEY", "psk"), Number("PAN_ID", 43962),
      Text("NETWORK_ID", "network"), Text("PREFIX", "fd00"),
      Text("BACKHAUL_PREFIX", "fd01"), Text("BACKHAUL_DEFAULT_ROUTE", "::/0"),
      Text("BACKHAUL_NEXT_HOP", "fe80::1"), Number("RF_CHANNEL", 12),
      Number("RF_CHANNEL_PAGE", 2), Number("RF_CHANNEL_MASK", 6),
      Number("RPL_INSTANCE_ID", 2), Number("RPL_IDOUBLINGS", 8),
      Number("RPL_K", 11), Number("RPL_MAX_RANK_INC", 1024),
      Number("RPL_MIN_HOP_RANK_INC", 256), Number("RPL_IMIN", 13),
      Number("RPL_DEFAULT_LIFETIME", 63), Number("RPL_LIFETIME_UNIT", 61),
      Number("RPL_PCS", 2), Number("RPL_OCP", 2),
      Number("RA_ROUTER_LIFETIME", 1025), Number("BEACON_PROTOCOL_ID", 5),
      Text("TLS_PSK_KEY", "tls"), Number("BACKHAUL_DYNAMIC_BOOTSTRAP", 0),
      Text("MULTICAST_ADDR", "ff05::7"), Number("PREFIX_FROM_BACKHAUL", 0)>>

\* The table without its i-th entry, with an entry ahead of all others, and
\* with one behind its end; a table ends on a NULL name in any case.
Without(table, i) ==
    SubSeq(table, 1, i - 1) \o SubSeq(table, i + 1, Len(table))
Ahead(entries, table) == entries \o table \o <<Terminator>>
Behind(entry, table)  == table \o <<Terminator, entry, Terminator>>

Channels == {0, 1, 31, 32, 63, 255}
Modes == {"PSK", "PANA", "WPA"}
Shorts == {0, 64206, 65533, 65534, 65535, 129742}

SomeTables ==
    \* every key missing in turn, and every key repeated behind the end
    {Ahead(<<>>, Without(Base, i)) : i \in DOMAIN Base} \cup
    {Behind(Base[i], Without(Base, i)) : i \in DOMAIN Base} \cup
    \* a value that hides the one that follows it
    {Ahead(<<Number("RF_CHANNEL", c)>>, Base) : c \in Channels} \cup
    {Ahead(<<Number("SHORT_MAC_ADDRESS", a)>>, Base) : a \in Shorts} \cup
    {Ahead(<<Text("SECURITY_MODE", m), Number("PSK_KEY_ID", 2),
             Number("TLS_PSK_KEY_ID", 3)>>, Base) : m \in Modes} \cup
    \* keys that are missing when they are needed
    {Ahead(<<Text("SECURITY_MODE", m), Text("PSK_KEY", NULL)>>, Base) : m \in Modes} \cup
    {Ahead(<<Text("SECURITY_MODE", "PANA"), Text("TLS_PSK_KEY", NULL)>>, Base),
     Ahead(<<Number("RPL_INSTANCE_ID", 258)>>, Base),
     Ahead(<<Number("PREFIX_FROM_BACKHAUL", 1)>>, Base),
     Ahead(<<Number("PREFIX_FROM_BACKHAUL", 256)>>, Base),
     Ahead(<<Number("PREFIX_FROM_BACKHAUL", 1),
             Number("BACKHAUL_DYNAMIC_BOOTSTRAP", 1)>>, Base),
     Ahead(<<>>, Base)}

TwoPrefixes == {"fd01", "fd02"}
=============================================================================
