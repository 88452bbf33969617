------------------------- MODULE ThreadConnHandler -------------------------
(***************************************************************************)
(* The connection handler of the Thread border router                      *)
(* (source/thread_br_conn_handler.c): the ids and the connection status of *)
(* the two interfaces, and the backbone border router (BBR) of the stack,  *)
(* which is started whenever an id is set and both are known.  Nothing     *)
(* stops a BBR; starting it again replaces the pair it serves.  The        *)
(* notifications of thread_bbr_ext.h are empty in this repository.         *)
(***************************************************************************)
EXTENDS Integers

VARIABLES
    thread_br_handler,  \* the static structure of the file
    bbr                 \* the interfaces of the last thread_bbr_start

connVars == <<thread_br_handler, bbr>>

NotStarted == [thread |-> -1, eth |-> -1]

\* thread_br_conn_handler_init.  The tasklet reads nothing of the structure
\* before it calls this, so the model starts from here.
InitHandler == [thread_interface_id |-> -1, eth_interface_id |-> -1,
                eth_connection_ready |-> FALSE,
                thread_connection_ready |-> FALSE]

thread_id == thread_br_handler.thread_interface_id
eth_id    == thread_br_handler.eth_interface_id

\* A defect the checks must find: the BBR is started for the first pair only.
SetHandler_once(handler) ==
    /\ thread_br_handler' = handler
    /\ bbr' = IF /\ bbr = NotStarted
                 /\ handler.thread_interface_id > -1
                 /\ handler.eth_interface_id > -1
              THEN [thread |-> handler.thread_interface_id,
                    eth |-> handler.eth_interface_id]
              ELSE bbr

\* The common end of the two id setters.
SetHandler(handler) ==
    /\ thread_br_handler' = handler
    /\ bbr' = IF handler.thread_interface_id > -1 /\ handler.eth_interface_id > -1
              THEN [thread |-> handler.thread_interface_id,
                    eth |-> handler.eth_interface_id]
              ELSE bbr

thread_interface_id_set(id) ==
    SetHandler([thread_br_handler EXCEPT !.thread_interface_id = id])

eth_interface_id_set(id) ==
    SetHandler([thread_br_handler EXCEPT !.eth_interface_id = id])

eth_interface_gone_silent == eth_interface_id_set(-1)

\* eth_interface_id_set(-1) followed by ethernet_connection_update(false)
eth_interface_gone ==
    SetHandler([thread_br_handler EXCEPT !.eth_interface_id = -1,
                                         !.eth_connection_ready = FALSE])

thread_connection_update(status) ==
    /\ thread_br_handler' =
          [thread_br_handler EXCEPT !.thread_connection_ready = status]
    /\ UNCHANGED bbr

ethernet_connection_update(status) ==
    /\ thread_br_handler' =
          [thread_br_handler EXCEPT !.eth_connection_ready = status]
    /\ UNCHANGED bbr
=============================================================================
