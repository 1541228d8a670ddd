------------------------- MODULE RendezvousMediator -------------------------
(***************************************************************************)
(* Registration with the rendezvous servers (rendezvous_mediator.rs).  The *)
(* loop of start_all starts a mediator for every configured server and     *)
(* waits for all of them to end.  A mediator registers the machine's key   *)
(* and then, again and again, its id; requests and answers travel by UDP   *)
(* and are lost or late.  The id, the keys and what is confirmed are in    *)
(* Config, which the mediators, running in parallel, and the config sync   *)
(* share.  When the timer of a mediator finds a request due is the matter  *)
(* of the module Latency; here it does at any time.                        *)
(***************************************************************************)
EXTENDS Naturals, FiniteSets

CONSTANTS
  Host,      \* rendezvous servers
  Lists,     \* the lists of servers that can be configured
  MaxStarts, \* bound: how often the mediators are started
  MaxNet,    \* bound: messages of a host under way when its timer sends another
  MaxId,     \* bound: ids drawn by Config::update_id are 2, 3, ..., MaxId
  Taken,     \* the servers at which id 1 belongs to another machine
  OwnPk,     \* the key generated before the config was synced
  RootPk,    \* the key in root's config
  RootConfirmed, \* key_confirmed in root's config
  Tcp,       \* whether start_tcp can be, or not be, used: a proxy, a websocket, or UDP disabled
  None

ASSUME MediatorAssumption ==
  /\ MaxStarts \in Nat /\ MaxNet \in Nat \ {0} /\ MaxId \in Nat \ {0} /\ Taken \subseteq Host
  /\ Lists \subseteq SUBSET Host
  /\ None \notin Host \cup {OwnPk, RootPk}
  /\ RootConfirmed \in BOOLEAN /\ Tcp \subseteq BOOLEAN

Id == 1..MaxId
Pk == {OwnPk, RootPk}

VARIABLES
  id, pk, keyConfirmed,
  hostKeyConfirmed,   \* the hosts that keys_confirmed maps to true
  solving,            \* SOLVING_PK_MISMATCH: a host or None
  sentRegisterPk,     \* SENT_REGISTER_PK
  sync,               \* the sync from root: "no", "set" (before the drop of CheckIfResendPk) or "done"
  main,               \* where the loop of start_all is
  shouldExit,         \* SHOULD_EXIT
  starts,             \* how often the mediators were started
  stopService,        \* the option "stop-service"
  servers,            \* the servers that were read
  tcp,                \* the mediators run start_tcp, not start_udp
  med,                \* [Host -> ...]: what the host's mediator does
  net,                \* requests and answers under way
  reg                 \* [Host -> [Id -> Pk or None]]: what the server holds (external)

config   == <<id, pk, keyConfirmed, hostKeyConfirmed>>
control  == <<main, shouldExit, starts, stopService, servers, tcp>>
vars     == <<config, solving, sentRegisterPk, sync, control, med, net, reg>>

\* A request is live while the socket it was sent from, and its answer goes to,
\* is open.
Request(h, kind, i) == [h |-> h, kind |-> kind, id |-> i, pk |-> pk, live |-> TRUE]
Answer(h, kind) == [h |-> h, kind |-> kind]
Requests == [h : Host, kind : {"RegisterPk", "RegisterPeer"}, id : Id, pk : Pk, live : BOOLEAN]
Answers  == [h : Host, kind : {"Peer", "RequestPk", "Ok", "UuidMismatch"}]

TypeOK ==
  /\ id \in Id /\ pk \in Pk /\ keyConfirmed \in BOOLEAN
  /\ hostKeyConfirmed \subseteq Host /\ solving \in Host \cup {None}
  /\ sentRegisterPk \in BOOLEAN
  /\ sync \in {"no", "set", "done"}
  /\ main \in {"read", "reset", "join"}
  /\ shouldExit \in BOOLEAN /\ starts \in 0..MaxStarts /\ stopService \in BOOLEAN
  /\ servers \subseteq Host /\ tcp \in BOOLEAN
  /\ med \in [Host -> {"off", "up", "sending", "ok", "mismatch", "register"}]
  /\ net \subseteq Requests \cup Answers
  /\ reg \in [Host -> [Id -> Pk \cup {None}]]

Init ==
  /\ id = 1 /\ pk = OwnPk /\ keyConfirmed = FALSE /\ hostKeyConfirmed = {}
  /\ solving = None /\ sentRegisterPk = FALSE
  /\ sync = "no"
  /\ main = "read" /\ shouldExit = FALSE /\ starts = 0 /\ stopService = FALSE
  /\ servers = {} /\ tcp = FALSE
  /\ med = [h \in Host |-> "off"]
  /\ net = {}
  /\ reg = [h \in Host |-> [i \in Id |-> IF RootConfirmed /\ i = 1 THEN RootPk ELSE None]]

-----------------------------------------------------------------------------
(* The loop of start_all.                                                   *)

\* SOLVING_PK_MISMATCH is cleared and the options are read; with the service
\* stopped nothing is started (the connections are closed, which is not shown
\* here), and the loop comes here again.
ReadServers ==
  /\ main = "read"
  /\ solving' = None
  /\ \/ stopService /\ UNCHANGED <<main, servers>>
     \/ ~stopService /\ main' = "reset" /\ servers' \in Lists
  /\ UNCHANGED <<config, sentRegisterPk, sync, shouldExit, starts, stopService, tcp, med, net, reg>>

\* SHOULD_EXIT is reset and a mediator started for every server, each with a
\* socket of its own; what was sent from the old socket changes at most the
\* server's record.  start chooses the transport; start_tcp, which supports a
\* single server, asks for the key to be confirmed again.
StartMediators ==
  /\ main = "reset" /\ starts < MaxStarts
  /\ starts' = starts + 1
  /\ shouldExit' = FALSE
  /\ main' = "join"
  /\ med' = [h \in Host |-> IF h \in servers THEN "up" ELSE "off"]
  /\ tcp' \in Tcp /\ (tcp' => Cardinality(servers) = 1)
  /\ hostKeyConfirmed' = IF tcp' THEN hostKeyConfirmed \ servers ELSE hostKeyConfirmed
  /\ net' = {[m EXCEPT !.live = FALSE] : m \in {r \in net \cap Requests : r.kind = "RegisterPk"}}
  /\ UNCHANGED <<id, pk, keyConfirmed, solving, sentRegisterPk, sync, stopService, servers, reg>>

\* join_all returns.
Joined ==
  /\ main = "join" /\ \A h \in Host : med[h] = "off"
  /\ main' = "read"
  /\ UNCHANGED <<config, solving, sentRegisterPk, sync, shouldExit, starts, stopService, servers,
                 tcp, med, net, reg>>

\* RendezvousMediator::restart after an option was set: "stop-service" or, with
\* the same stop, another one, such as the servers.
Restart(stop) ==
  /\ starts < MaxStarts
  /\ stopService' = stop
  /\ shouldExit' = TRUE
  /\ UNCHANGED <<config, solving, sentRegisterPk, sync, main, starts, servers, tcp, med, net, reg>>

\* A mistake: one mediator's end does not end the others.
Exit_Alone(h) ==
  /\ med' = [med EXCEPT ![h] = "off"]
  /\ UNCHANGED shouldExit

\* A mediator ends: "once one exits, the others also exit".
Exit(h) ==
  /\ med' = [med EXCEPT ![h] = "off"]
  /\ shouldExit' = TRUE

\* A socket error, for TCP also the keep-alive: start returns an error.
Fail(h) ==
  /\ med[h] = "up" /\ starts < MaxStarts
  /\ Exit(h)
  /\ UNCHANGED <<config, solving, sentRegisterPk, sync, main, starts, stopService, servers, tcp,
                 net, reg>>

-----------------------------------------------------------------------------
(* Requests.                                                                *)

\* Nobody holds the lock of SOLVING_PK_MISMATCH across several steps.
SolvingFree == \A h \in Host : med[h] /= "mismatch"

\* SENT_REGISTER_PK is stored after the message was sent (the first time; later
\* that changes nothing).
Sending(h) == med' = [med EXCEPT ![h] = IF sentRegisterPk THEN "up" ELSE "sending"]

Room(h) == Cardinality({m \in net : m.h = h}) < MaxNet

\* register_pk.
RegisterPk(h) ==
  /\ net' = net \cup {Request(h, "RegisterPk", id)}
  /\ Sending(h)

StoreSent(h) ==
  /\ med[h] = "sending"
  /\ sentRegisterPk' = TRUE
  /\ med' = [med EXCEPT ![h] = "up"]
  /\ UNCHANGED <<config, solving, sync, control, net, reg>>

\* register_peer: silent while another host's mismatch is being solved; the key
\* first, unless it is confirmed.
RegisterPeer(h) ==
  IF solving \notin {None, h} THEN UNCHANGED <<net, med>>
  ELSE IF ~keyConfirmed \/ h \notin hostKeyConfirmed THEN RegisterPk(h)
  ELSE net' = net \cup {Request(h, "RegisterPeer", id)} /\ UNCHANGED med

\* The timer of start_udp: exit if asked to, else register when it is time.
TickUdp(h) ==
  /\ ~tcp /\ med[h] = "up"
  /\ \/ shouldExit /\ Exit(h) /\ UNCHANGED net
     \/ ~shouldExit /\ SolvingFree /\ Room(h) /\ RegisterPeer(h) /\ UNCHANGED shouldExit
  /\ UNCHANGED <<config, solving, sentRegisterPk, sync, main, starts, stopService, servers, tcp, reg>>

\* The timer of start_tcp: only the key is registered, the connection keeps
\* the id alive.
TickTcp(h) ==
  /\ tcp /\ med[h] = "up"
  /\ \/ shouldExit /\ Exit(h) /\ UNCHANGED net
     \/ /\ ~shouldExit /\ Room(h)
        /\ ~keyConfirmed \/ h \notin hostKeyConfirmed
        /\ RegisterPk(h)
        /\ UNCHANGED shouldExit
  /\ UNCHANGED <<config, solving, sentRegisterPk, sync, main, starts, stopService, servers, tcp, reg>>

-----------------------------------------------------------------------------
(* Answers: handle_resp.                                                    *)

\* The mediator takes an answer.
Take(h, kind) ==
  /\ med[h] = "up" /\ Answer(h, kind) \in net
  /\ UNCHANGED <<sync, control, reg>>

RegisterPeerResponse(h) ==
  /\ Take(h, "Peer")
  /\ net' = net \ {Answer(h, "Peer")}
  /\ UNCHANGED <<config, solving, sentRegisterPk, med>>

\* request_pk: the server does not know the key.
RequestPk(h) ==
  /\ Take(h, "RequestPk")
  /\ net' = (net \ {Answer(h, "RequestPk")}) \cup {Request(h, "RegisterPk", id)}
  /\ Sending(h)
  /\ UNCHANGED <<config, solving, sentRegisterPk>>

\* A mistake: an answer confirms the key for every server.
RegisterPkOk_All(h) ==
  /\ Take(h, "Ok")
  /\ net' = net \ {Answer(h, "Ok")}
  /\ keyConfirmed' = TRUE
  /\ hostKeyConfirmed' = servers
  /\ med' = [med EXCEPT ![h] = "ok"]
  /\ UNCHANGED <<id, pk, solving, sentRegisterPk>>

\* RegisterPkResponse OK confirms the key ...
RegisterPkOk(h) ==
  /\ Take(h, "Ok")
  /\ net' = net \ {Answer(h, "Ok")}
  /\ keyConfirmed' = TRUE
  /\ hostKeyConfirmed' = hostKeyConfirmed \cup {h}
  /\ med' = [med EXCEPT ![h] = "ok"]
  /\ UNCHANGED <<id, pk, solving, sentRegisterPk>>

\* A mistake: the solved mismatch is not forgotten.
ClearSolving_Kept(h) ==
  /\ med[h] = "ok" /\ SolvingFree
  /\ med' = [med EXCEPT ![h] = "up"]
  /\ UNCHANGED <<config, solving, sentRegisterPk, sync, control, net, reg>>

\* ... and a mismatch is solved.
ClearSolving(h) ==
  /\ med[h] = "ok" /\ SolvingFree
  /\ solving' = None
  /\ med' = [med EXCEPT ![h] = "up"]
  /\ UNCHANGED <<config, sentRegisterPk, sync, control, net, reg>>

\* handle_uuid_mismatch, under the lock of SOLVING_PK_MISMATCH: nothing if
\* another host's mismatch is being solved, else no key is confirmed any more ...
UuidMismatch(h) ==
  /\ Take(h, "UuidMismatch") /\ SolvingFree
  /\ net' = net \ {Answer(h, "UuidMismatch")}
  /\ IF solving \in {None, h}
     THEN /\ keyConfirmed' = FALSE
          /\ hostKeyConfirmed' = IF keyConfirmed THEN {} ELSE hostKeyConfirmed
          /\ med' = [med EXCEPT ![h] = "mismatch"]
     ELSE UNCHANGED <<keyConfirmed, hostKeyConfirmed, med>>
  /\ UNCHANGED <<id, pk, solving, sentRegisterPk>>

\* A mistake: a further id is drawn before the new one is registered.
UpdateId_Repeated(h) ==
  /\ med[h] = "mismatch"
  /\ id' = id + 1
  /\ solving' = h
  /\ UNCHANGED <<pk, keyConfirmed, hostKeyConfirmed, sentRegisterPk, sync, control, med, net,
                 reg>>

\* ... a new id is drawn, the lock is released ...
UpdateId(h) ==
  /\ med[h] = "mismatch" /\ id < MaxId
  /\ id' = id + 1
  /\ solving' = h
  /\ med' = [med EXCEPT ![h] = "register"]
  /\ UNCHANGED <<pk, keyConfirmed, hostKeyConfirmed, sentRegisterPk, sync, control, net, reg>>

\* ... and the key is registered for whatever the id is then.
RegisterNewId(h) ==
  /\ med[h] = "register"
  /\ RegisterPk(h)
  /\ UNCHANGED <<config, solving, sentRegisterPk, sync, control, reg>>

-----------------------------------------------------------------------------
(* The config sync: root's config replaces ours while CheckIfResendPk is in *)
(* scope, whose drop asks for a new registration if the key has changed.    *)

SyncConfig ==
  /\ sync = "no"
  /\ sync' = "set"
  /\ id' = 1 /\ pk' = RootPk
  /\ keyConfirmed' = RootConfirmed
  /\ hostKeyConfirmed' = IF RootConfirmed THEN Host ELSE {}
  /\ UNCHANGED <<solving, sentRegisterPk, control, med, net, reg>>

CheckIfResendPk ==
  /\ sync = "set"
  /\ sync' = "done"
  /\ IF sentRegisterPk
     THEN /\ keyConfirmed' = FALSE
          /\ hostKeyConfirmed' = IF keyConfirmed THEN {} ELSE hostKeyConfirmed
     ELSE UNCHANGED <<keyConfirmed, hostKeyConfirmed>>
  /\ UNCHANGED <<id, pk, solving, sentRegisterPk, control, med, net, reg>>

-----------------------------------------------------------------------------
(* The servers and the network, external.                                   *)

Foreign(m) == m.id = 1 /\ m.h \in Taken

\* What the server answers, if the answer still finds the socket.
Reply(m, kind) == net' = (net \ {m}) \cup (IF m.live THEN {Answer(m.h, kind)} ELSE {})

ServePeer(m) ==
  /\ m \in net \cap Requests /\ m.kind = "RegisterPeer"
  /\ Reply(m, IF reg[m.h][m.id] = None /\ ~Foreign(m) THEN "RequestPk" ELSE "Peer")
  /\ UNCHANGED <<config, solving, sentRegisterPk, sync, control, med, reg>>

ServePk(m) ==
  /\ m \in net \cap Requests /\ m.kind = "RegisterPk"
  /\ Reply(m, IF Foreign(m) THEN "UuidMismatch" ELSE "Ok")
  /\ reg' = IF Foreign(m) THEN reg ELSE [reg EXCEPT ![m.h][m.id] = m.pk]
  /\ UNCHANGED <<config, solving, sentRegisterPk, sync, control, med>>

Lose(m) ==
  /\ ~tcp /\ m \in net
  /\ net' = net \ {m}
  /\ UNCHANGED <<config, solving, sentRegisterPk, sync, control, med, reg>>

-----------------------------------------------------------------------------
MainStep == ReadServers \/ StartMediators \/ Joined

MediatorStep(h) ==
  \/ StoreSent(h) \/ TickUdp(h) \/ TickTcp(h) \/ ClearSolving(h) \/ UpdateId(h)
  \/ RegisterNewId(h)

AnswerStep(h) ==
  RegisterPeerResponse(h) \/ RequestPk(h) \/ RegisterPkOk(h) \/ UuidMismatch(h)

Next ==
  \/ MainStep
  \/ \E stop \in BOOLEAN : Restart(stop)
  \/ \E h \in Host : MediatorStep(h) \/ AnswerStep(h) \/ Fail(h)
  \/ \E m \in net : ServePeer(m) \/ ServePk(m) \/ Lose(m)

Spec == Init /\ [][Next]_vars

\* With a config sync from root on the way.
SyncSpec == Init /\ [][Next \/ SyncConfig \/ CheckIfResendPk]_vars

\* Threads run, time passes, and the network loses messages but not every one
\* of a kind that is sent again and again.
Fairness ==
  /\ WF_vars(MainStep)
  /\ \A h \in Host :
       /\ WF_vars(MediatorStep(h)) /\ WF_vars(RegisterPeerResponse(h))
       /\ SF_vars(RequestPk(h)) /\ SF_vars(RegisterPkOk(h)) /\ SF_vars(UuidMismatch(h))
       /\ SF_vars(\E m \in net : m.h = h /\ ServePeer(m))
       /\ SF_vars(\E m \in net : m.h = h /\ ServePk(m))

FairSpec == Spec /\ Fairness

-----------------------------------------------------------------------------
(* Properties.                                                              *)

\* Once one mediator exits, the others also exit, and all are started anew: the
\* SHOULD_EXIT flag is not reset under a mediator that has yet to see it.
ExitTogether == (main = "join" /\ \E h \in servers : med[h] = "off") ~> main = "read"

\* If the mediators are left to run, the machine ends up registered with its id
\* and key at every server, whatever ids were found taken, answers came late,
\* and mismatches were solved on the way.
EventuallyRegistered ==
  <>[](main = "join" /\ ~shouldExit) =>
    <>[](\A h \in servers : reg[h][id] = pk)

\* What counts as confirmed has been registered: at every such host the machine
\* is known by one of its keys, although a mismatch or a restart came
\* between the request and its answer.  A host that counts wrongly is sent
\* ids without a key, and depends on request_pk.
ConfirmedKnown ==
  keyConfirmed => \A h \in hostKeyConfirmed : \E i \in Id : reg[h][i] /= None
=============================================================================
