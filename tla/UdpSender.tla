----------------------------- MODULE UdpSender -----------------------------
(***************************************************************************)
(* MetricsUDPSender (metrics_udp_sender.cpp): a UDP socket whose           *)
(* destination is looked up again and again.  All of it runs on the io     *)
(* thread.  What is sent while the socket is closed is dropped.            *)
(***************************************************************************)
CONSTANTS
    Lookups,       \* results of resolving the host: sets of addresses, {} if none
    Literals       \* what the host may be if it is an address itself: {address}, or {}

VARIABLES
    send_host,                 \* {address} if the host is an address, else {}
    is_open,                   \* the socket is open
    current_endpoint,          \* where it sends to, or "none"
    last_resolved_addresses,   \* the latest result that was not empty
    openFailed                 \* history: the latest open() failed

udpVars == <<send_host, is_open, current_endpoint, last_resolved_addresses, openFailed>>

UdpTypeOK ==
    /\ send_host \in Literals
    /\ is_open \in BOOLEAN /\ openFailed \in BOOLEAN
    /\ last_resolved_addresses \in Lookups \cup {{}}
    /\ current_endpoint \in (UNION (Lookups \cup Literals)) \cup {"none"}

UdpInit ==
    /\ send_host \in Literals
    /\ is_open = FALSE
    /\ current_endpoint = "none"
    /\ last_resolved_addresses = {}
    /\ openFailed = FALSE

\* The socket goes to a new endpoint: it is closed and opened again, which may
\* fail and leaves it closed.
move(address) ==
    IF is_open /\ address = current_endpoint
    THEN UNCHANGED <<is_open, current_endpoint, openFailed>>
    ELSE \/ /\ is_open' = TRUE /\ current_endpoint' = address /\ openFailed' = FALSE
         \/ /\ is_open' = FALSE /\ openFailed' = TRUE /\ UNCHANGED current_endpoint

\* Mutant: a socket that is open is left where it is.
ChooseOnlyIfClosed(result) ==
    IF is_open THEN UNCHANGED <<is_open, current_endpoint, openFailed>>
    ELSE \E address \in result : move(address)

\* A random entry of a list that has changed.
choose_entry(result) == \E address \in result : move(address)

\* The resolve timer.  An empty result, or an error, leaves everything as it is,
\* unless the host is an address; so does a list that has not changed.  A host that
\* is an address resolves to itself.
dest_resolve_cb(result) ==
    /\ send_host # {} => result \in {{}, send_host}
    /\ UNCHANGED send_host
    /\ \/ /\ result = {} /\ send_host = {}
          /\ UNCHANGED <<is_open, current_endpoint, last_resolved_addresses, openFailed>>
       \/ /\ result # {} /\ result = last_resolved_addresses
          /\ UNCHANGED <<is_open, current_endpoint, last_resolved_addresses, openFailed>>
       \/ /\ result = {} /\ send_host # {}
          /\ choose_entry(send_host)
          /\ UNCHANGED last_resolved_addresses
       \/ /\ result \notin {{}, last_resolved_addresses}
          /\ last_resolved_addresses' = result
          /\ choose_entry(result)

(***************************************************************************)
(* Properties.                                                             *)
(***************************************************************************)

\* Once a lookup has had a result, data goes to an address of the latest one,
\* also while lookups fail.  There is one exception, which then lasts until the
\* list changes (or, if the host is an address, until a lookup fails): open()
\* failed, after the list had been noted as known.
SocketFollowsLookups ==
    last_resolved_addresses # {} =>
        IF openFailed THEN ~is_open
        ELSE is_open /\ current_endpoint \in last_resolved_addresses
=============================================================================
