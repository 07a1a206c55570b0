------------------------------ MODULE Connect ------------------------------
(***************************************************************************)
(* Reaching the peer: connect_with_mode (src/connection.rs) with the       *)
(* rendezvous calls it makes (src/rendezvous.rs), called once under a      *)
(* timeout when the daemon starts, or up to MaxAttempts times without one  *)
(* by reconnect_with_retry_backoffs (src/daemon.rs).                       *)
(*                                                                         *)
(* hbbs (the rendezvous server), hbbr (the relay, which joins the two      *)
(* connections that name the same uuid) and the peer are external: they    *)
(* send any message the code tells apart, in any order, or none.           *)
(* RegisterPeerResponse and TestDelay are skipped by the loops that meet   *)
(* them and change nothing; what a stream is used for afterwards is in     *)
(* module Daemon.                                                          *)
(***************************************************************************)
EXTENDS Naturals, FiniteSets

CONSTANTS
    Callers,        \* who connects: "start", "reconnect"
    MaxAttempts,    \* attempts of a reconnect (RECONNECT_MAX_ATTEMPTS)
    Hosts,          \* hosts a relay may run on
    ConfigRelay,    \* config.relay_server
    None            \* no address, no uuid, no response

DefaultPort == 21117

(* An address as it is written in a message: the port may be missing. *)
Addrs == [host : Hosts, port : {None, DefaultPort, DefaultPort + 1}]

ASSUME CallerAssumption == Callers \subseteq {"start", "reconnect"} /\ MaxAttempts \in Nat \ {0}

ASSUME RelayAssumption == ConfigRelay \in Addrs /\ None \notin Addrs

VARIABLES
    caller,         \* who is connecting
    attempt,        \* number of the attempt
    phase,          \* where connect_with_mode is
    udp_lost,       \* the datagram awaited, or its request, was lost
    tcp,            \* the punch-hole connection: plain or encrypted
    punch_response, \* last PunchHoleResponse of this attempt, or None
    offer,          \* where the peer said it is (RelayResponse), or None
    relay_addr,     \* relay to bind at, None until chosen
    relay_uuid,     \* uuid to bind with, None until chosen
    heartbeats,     \* attempts whose heartbeat task runs
    announced,      \* uuids sent to hbbs for the peer
    peerAt          \* places where the peer waits

meetVars == <<offer, announced, peerAt>>
tcpVars == <<tcp, punch_response>>
relayVars == <<relay_addr, relay_uuid>>
connectVars == <<caller, attempt, phase, udp_lost, tcpVars, relayVars, heartbeats, meetVars>>

-----------------------------------------------------------------------------
(* Data. *)

(* Drawn anew for every attempt. *)
MutantFixedUuid == <<"client", 1>>
ClientUuid == <<"client", attempt>>

PeerUuid(n) == <<"peer", n>>

normalize_relay_addr(addr) ==
    IF addr.port = None THEN [addr EXCEPT !.port = DefaultPort] ELSE addr

(* Where the peer waits, with which uuid, and for which attempt. *)
Place(addr, uuid) == [addr |-> addr, uuid |-> uuid, for |-> attempt]

Failures == {"IdNotExist", "Offline", "LicenseMismatch", "LicenseOveruse", "Unknown"}

PunchHoleResponses ==
    [failure : Failures, other_failure : BOOLEAN, socket_addr : BOOLEAN,
     relay_server : {None, [host |-> ConfigRelay.host, port |-> None]}]

(* An empty address means the configured relay. *)
AddrOr(addr, default) == normalize_relay_addr(IF addr = None THEN default ELSE addr)

(* IdNotExist is the default of the field: alone it says nothing. *)
check_punch_hole_failure(resp) ==
    /\ ~resp.other_failure
    /\ \/ resp.failure = "Offline"
       \/ resp.failure = "IdNotExist" /\ (resp.socket_addr \/ resp.relay_server # None)

-----------------------------------------------------------------------------
Trying == {"register", "register_pk", "warmup", "punch", "request_relay", "relay_response", "bind",
           "signed_id", "hash", "login_response", "backoff"}

Handshake == {"signed_id", "hash", "login_response"}

ConnectInit ==
    /\ caller \in Callers
    /\ attempt = 1
    /\ phase = IF caller = "start" THEN "register" ELSE "backoff"
    /\ udp_lost = FALSE
    /\ tcp = "plain" /\ punch_response = None
    /\ relay_addr = None /\ relay_uuid = None
    /\ heartbeats = {}
    /\ offer = None /\ announced = {} /\ peerAt = {}

AttemptsLeft == attempt < MaxAttempts

(* connect_with_mode returns an error: the daemon that is starting exits, a   *)
(* reconnect goes on to the next attempt.                                     *)
Fail(stillBeating) ==
    /\ IF caller = "reconnect" /\ AttemptsLeft
       THEN phase' = "backoff" /\ attempt' = attempt + 1
       ELSE phase' = "failed" /\ UNCHANGED attempt
    /\ heartbeats' = IF caller = "start" THEN {} ELSE stillBeating
    /\ tcp' = "plain" /\ punch_response' = None
    /\ relay_addr' = None /\ relay_uuid' = None /\ offer' = None
    /\ UNCHANGED <<caller, udp_lost, announced, peerAt>>

(* Of the error returns only that of handshake_and_auth comes to abort(). *)
FailEarly == Fail(heartbeats)

FailHandshake == Fail(heartbeats \ {attempt})

Backoff ==
    /\ phase = "backoff"
    /\ phase' = "register"
    /\ UNCHANGED <<caller, attempt, udp_lost, tcpVars, relayVars, heartbeats, meetVars>>

(* connect_with_timeout: the future is dropped wherever it is. *)
StartTimesOut ==
    /\ caller = "start"
    /\ phase \in Trying
    /\ FailEarly

-----------------------------------------------------------------------------
(* Phase 1, over UDP. *)

DatagramLost ==
    /\ phase \in {"register", "register_pk"}
    /\ ~udp_lost
    /\ udp_lost' = TRUE
    /\ UNCHANGED <<caller, attempt, phase, tcpVars, relayVars, heartbeats, meetVars>>

StartHeartbeat == phase' = "warmup" /\ heartbeats' = heartbeats \cup {attempt}

RegisterPeer(request_pk) ==
    /\ phase = "register"
    /\ ~udp_lost
    /\ IF request_pk THEN phase' = "register_pk" /\ UNCHANGED heartbeats ELSE StartHeartbeat
    /\ UNCHANGED <<caller, attempt, udp_lost, tcpVars, relayVars, meetVars>>

(* The result in the response is not looked at. *)
RegisterPk ==
    /\ phase = "register_pk"
    /\ ~udp_lost
    /\ StartHeartbeat
    /\ UNCHANGED <<caller, attempt, udp_lost, tcpVars, relayVars, meetVars>>

(* No socket, or an answer that is not the one expected. *)
RegisterFails ==
    /\ phase \in {"register", "register_pk"}
    /\ ~udp_lost
    /\ FailEarly

-----------------------------------------------------------------------------
(* Phase 2, over TCP to hbbs. *)

(* Bind at addr with the peer's uuid, or with the client's own. *)
Bind(addr, uuid) ==
    /\ phase' = "bind"
    /\ relay_addr' = addr
    /\ relay_uuid' = uuid

RequestRelayNext == phase' = "request_relay" /\ UNCHANGED relayVars

Phase2Unchanged == UNCHANGED <<caller, attempt, udp_lost, heartbeats>>

(* After the warm-up the PunchHoleRequest is sent ... *)
PunchSend ==
    /\ phase = "warmup"
    /\ phase' = "punch"
    /\ UNCHANGED <<tcpVars, relayVars, meetVars>>
    /\ Phase2Unchanged

(* ... and may make the peer wait at a relay of its choice. *)
PeerGetsPunchHole ==
    /\ phase \in Trying \ {"register", "register_pk", "warmup", "backoff"}
    /\ \A w \in peerAt : w.uuid # PeerUuid(attempt)
    /\ \E h \in Hosts, p \in {DefaultPort, DefaultPort + 1} :
          peerAt' = peerAt \cup {Place([host |-> h, port |-> p], PeerUuid(attempt))}
    /\ UNCHANGED <<phase, offer, announced, tcpVars, relayVars>>
    /\ Phase2Unchanged

PunchHoleResponse(resp) ==
    /\ phase = "punch"
    /\ punch_response' = resp
    /\ UNCHANGED <<phase, tcp, relayVars, meetVars>>
    /\ Phase2Unchanged

(* The request is sent again over the encrypted stream. *)
KeyExchange ==
    /\ phase = "punch"
    /\ tcp = "plain"
    /\ tcp' = "encrypted"
    /\ UNCHANGED <<phase, punch_response, relayVars, meetVars>>
    /\ Phase2Unchanged

(* A RelayResponse names the place of the peer; the port may be left out when *)
(* it is the default one, the address when it is the configured relay.        *)
Names(w, addr) ==
    \/ addr = None /\ w.addr = normalize_relay_addr(ConfigRelay)
    \/ addr \in Addrs /\ w.addr.host = addr.host
       /\ w.addr.port = IF addr.port = None THEN DefaultPort ELSE addr.port

MutantOwnUuid(w) == ClientUuid
BindUuid(w) == w.uuid

RelayResponse(w, addr) ==
    /\ phase = "punch"
    /\ w.uuid = PeerUuid(attempt)
    /\ Names(w, addr)
    /\ offer' = w
    /\ Bind(AddrOr(addr, ConfigRelay), BindUuid(w))
    /\ UNCHANGED <<tcpVars, announced, peerAt>>
    /\ Phase2Unchanged

(* A RelayResponse without a uuid. *)
RelayResponseNoUuid(addr) ==
    /\ phase = "punch"
    /\ Bind(AddrOr(addr, ConfigRelay), ClientUuid)
    /\ UNCHANGED <<tcpVars, meetVars>>
    /\ Phase2Unchanged

(* refuse_reason is set. *)
RelayRefused ==
    /\ phase \in {"punch", "relay_response"}
    /\ FailEarly

(* No connection, a failed or repeated KeyExchange, the end of the stream, an *)
(* unexpected message: whatever came before it, the relay is asked for.       *)
PunchFails ==
    /\ phase \in {"warmup", "punch"}
    /\ RequestRelayNext
    /\ UNCHANGED <<tcpVars, meetVars>>
    /\ Phase2Unchanged

(* PUNCH_HOLE_RESPONSE_TIMEOUT: the last PunchHoleResponse is the answer. *)
Refused == punch_response # None /\ ~check_punch_hole_failure(punch_response)

PunchTimesOut ==
    /\ phase = "punch"
    /\ IF Refused
       THEN FailEarly
       ELSE /\ IF punch_response # None /\ punch_response.relay_server # None
               THEN Bind(normalize_relay_addr(punch_response.relay_server), ClientUuid)
               ELSE RequestRelayNext
            /\ UNCHANGED <<tcpVars, meetVars>>
            /\ Phase2Unchanged

RequestRelaySend ==
    /\ phase = "request_relay"
    /\ phase' = "relay_response"
    /\ announced' = announced \cup {ClientUuid}
    /\ UNCHANGED <<tcpVars, relayVars, offer, peerAt>>
    /\ Phase2Unchanged

(* The peer is told to wait with the client's uuid. *)
PeerGetsRequestRelay ==
    /\ phase \in Trying \ {"backoff"}
    /\ ClientUuid \in announced
    /\ \A w \in peerAt : w.uuid # ClientUuid
    /\ \E h \in Hosts : peerAt' = peerAt \cup {Place([host |-> h, port |-> DefaultPort], ClientUuid)}
    /\ UNCHANGED <<caller, attempt, phase, udp_lost, tcpVars, relayVars, heartbeats, offer, announced>>

RequestRelayAnswered(addr) ==
    /\ phase = "relay_response"
    /\ Bind(AddrOr(addr, ConfigRelay), ClientUuid)
    /\ UNCHANGED <<tcpVars, meetVars>>
    /\ Phase2Unchanged

(* No connection, a bad answer, or none for 15 seconds. *)
RequestRelayFails ==
    /\ phase \in {"request_relay", "relay_response"}
    /\ Bind(normalize_relay_addr(ConfigRelay), ClientUuid)
    /\ UNCHANGED <<tcpVars, meetVars>>
    /\ Phase2Unchanged

-----------------------------------------------------------------------------
(* Phases 3 and 4, through hbbr. *)

HandshakeUnchanged == UNCHANGED <<caller, attempt, udp_lost, tcpVars, relayVars, meetVars>>

relay_connect_with_type ==
    /\ phase = "bind"
    /\ phase' = "signed_id"
    /\ UNCHANGED heartbeats
    /\ HandshakeUnchanged

RelayConnectFails ==
    /\ phase = "bind"
    /\ FailEarly

(* hbbr passes on what the peer sends once both wait with the same uuid. *)
Partners == {w \in peerAt : w.addr = relay_addr /\ w.uuid = relay_uuid}

Joined == Partners # {}

SignedId ==
    /\ phase = "signed_id"
    /\ Joined
    /\ phase' = "hash"
    /\ UNCHANGED heartbeats
    /\ HandshakeUnchanged

Hash ==
    /\ phase = "hash"
    /\ Joined
    /\ phase' = "login_response"
    /\ UNCHANGED heartbeats
    /\ HandshakeUnchanged

MutantNoAbort ==
    /\ phase = "login_response"
    /\ Joined
    /\ phase' = "connected"
    /\ UNCHANGED heartbeats
    /\ HandshakeUnchanged
LoginAccepted ==
    /\ phase = "login_response"
    /\ Joined
    /\ phase' = "connected"
    /\ heartbeats' = heartbeats \ {attempt}
    /\ HandshakeUnchanged

(* The relay or the peer hangs up, an unexpected or malformed message, the    *)
(* login is rejected.                                                         *)
HandshakeFails ==
    /\ phase \in Handshake
    /\ FailHandshake

(* 30 seconds for SignedId, 10 for Hash, 10 for LoginResponse with whatever   *)
(* precedes it.                                                               *)
MutantLoginWaits ==
    /\ phase \in {"signed_id", "hash"}
    /\ FailHandshake
HandshakeTimesOut ==
    /\ phase \in Handshake
    /\ FailHandshake

-----------------------------------------------------------------------------
Register == RegisterPk \/ RegisterFails \/ \E request_pk \in BOOLEAN : RegisterPeer(request_pk)

Punch ==
    \/ PunchSend \/ PunchFails \/ PunchTimesOut \/ KeyExchange
    \/ \E resp \in PunchHoleResponses : PunchHoleResponse(resp)
    \/ \E w \in peerAt, addr \in Addrs \cup {None} : RelayResponse(w, addr)
    \/ \E addr \in {None, ConfigRelay} : RelayResponseNoUuid(addr)
    \/ RelayRefused

AskRelay ==
    \/ RequestRelaySend \/ RequestRelayFails
    \/ \E addr \in Addrs \cup {None} : RequestRelayAnswered(addr)

ThroughRelay ==
    \/ relay_connect_with_type \/ RelayConnectFails
    \/ SignedId \/ Hash \/ LoginAccepted
    \/ HandshakeFails \/ HandshakeTimesOut

Network == DatagramLost \/ PeerGetsPunchHole \/ PeerGetsRequestRelay

ConnectNext == Backoff \/ StartTimesOut \/ Register \/ Punch \/ AskRelay \/ ThroughRelay \/ Network

ConnectSpec == ConnectInit /\ [][ConnectNext]_connectVars

(* Timers fire, tcp connects succeed or fail, and hbbs answers a datagram     *)
(* that was not lost.  Nothing else is promised by hbbs, hbbr or the peer.    *)
ConnectFairness ==
    /\ WF_connectVars(Backoff)
    /\ WF_connectVars(StartTimesOut)
    /\ WF_connectVars(Register)
    /\ WF_connectVars(PunchSend \/ PunchFails)
    /\ WF_connectVars(PunchTimesOut)
    /\ WF_connectVars(RequestRelaySend \/ RequestRelayFails)
    /\ WF_connectVars(relay_connect_with_type \/ RelayConnectFails)
    /\ WF_connectVars(HandshakeTimesOut)

ConnectLiveSpec == ConnectSpec /\ ConnectFairness

-----------------------------------------------------------------------------
(* Properties. *)

Uuids == {"client", "peer"} \X (1 .. MaxAttempts)

Places == [addr : Addrs, uuid : Uuids, for : 1 .. MaxAttempts]

AttemptTypeOK ==
    /\ caller \in Callers
    /\ attempt \in 1 .. MaxAttempts
    /\ phase \in Trying \cup {"connected", "failed"}
    /\ tcp \in {"plain", "encrypted"}
    /\ punch_response \in PunchHoleResponses \cup {None}
    /\ offer \in Places \cup {None}
    /\ relay_addr \in Addrs \cup {None} /\ relay_uuid \in Uuids \cup {None}
    /\ heartbeats \subseteq 1 .. attempt
    /\ announced \subseteq Uuids
    /\ peerAt \subseteq Places

(* The variables of connect_with_mode have their types. *)
ConnectTypeOK == udp_lost \in BOOLEAN /\ AttemptTypeOK

(* A peer that said where it waits is met there: whatever else hbbs sent and  *)
(* however the address was written, the relay is bound at that address with   *)
(* the peer's uuid, not with the client's own (connect_with_mode, phase 2).   *)
MeetsPeerAtOffer ==
    phase \in Handshake /\ offer # None => relay_addr = offer.addr /\ relay_uuid = offer.uuid

(* hbbs hears of the client as long as an attempt depends on it, however the  *)
(* attempt got there, and no longer once there is a stream (warmup_secs,      *)
(* start_heartbeat).  Attempts that fail early are another matter.            *)
HeartbeatCoversAttempt ==
    /\ phase \in Trying \ {"register", "register_pk", "backoff"} => attempt \in heartbeats
    /\ phase = "connected" => attempt \notin heartbeats

(* The connection a peer left waiting for an attempt that was given up is     *)
(* never the one a later attempt talks to: its uuid is not used again.        *)
NoStalePartner ==
    phase \in Handshake \cup {"connected"} => \A w \in Partners : w.for = attempt

(* The strengthening that makes them inductive: a place carries the uuid of   *)
(* the attempt it is for, the uuid to bind with is one of this attempt, and   *)
(* an offer lives from the RelayResponse to the end of its attempt.           *)
Bound == {"bind", "connected"} \cup Handshake

ConnectInv ==
    /\ AttemptTypeOK
    /\ HeartbeatCoversAttempt
    /\ \A w \in peerAt : w.uuid[2] = w.for
    /\ phase \in Bound => relay_uuid[2] = attempt
    /\ offer # None => phase \in Bound /\ relay_addr = offer.addr /\ relay_uuid = offer.uuid

(* "so the CLI can report a clear message instead of silently falling through *)
(* to a relay that will also fail" (src/connection.rs, the comment on         *)
(* check_punch_hole_failure): an attempt hbbs has refused asks for no relay.  *)
(* It does not hold: a refusal followed by the end of the stream is lost.     *)
RefusalIsReported == phase = "request_relay" => ~Refused

(* Connecting returns, connected or with its attempts used up.  A daemon that *)
(* is starting gets its answer whatever the network loses, since              *)
(* connect_with_timeout covers the waits that have no timeout of their own.   *)
(* A reconnect returns unless a datagram of a registration is lost: every     *)
(* later wait has its own timeout.                                            *)
ConnectReturns ==
    /\ caller = "start" ~> phase \in {"connected", "failed"}
    /\ [](~udp_lost) => <>(phase \in {"connected", "failed"})
=============================================================================
