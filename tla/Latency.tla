------------------------------ MODULE Latency ------------------------------
(***************************************************************************)
(* The timers of a mediator over UDP (start_udp in rendezvous_mediator.rs):*)
(* when it registers, how long it waits for the answer, what latency it    *)
(* shows for its server, and when it replaces its socket.  What it sends   *)
(* is the matter of the module RendezvousMediator.                         *)
(*                                                                         *)
(* Time passes in units of MIN_REG_TIMEOUT, three seconds; the timer ticks *)
(* in each of them.                                                        *)
(***************************************************************************)
EXTENDS Naturals

CONSTANTS
  PublicServer,   \* using_public_server(): the timeout is backed off
  MaxRegTimeout,  \* MAX_REG_TIMEOUT, 10 units
  RegInterval,    \* REG_INTERVAL, 5 units
  DnsInterval,    \* DNS_INTERVAL, 20 units
  None

ASSUME LatencyAssumption ==
  /\ PublicServer \in BOOLEAN /\ None \notin Nat
  /\ MaxRegTimeout \in Nat \ {0} /\ RegInterval \in Nat \ {0} /\ DnsInterval \in Nat

MaxFails1 == 2
MaxFails2 == 4

VARIABLES
  sentAge,     \* age of last_register_sent, or None
  respAge,     \* age of last_register_resp, or None
  dnsAge,      \* age of last_dns_check
  regTimeout,  \* reg_timeout
  fails,       \* timeouts in a row
  ema,         \* ema_latency is positive
  old,         \* old_latency is positive
  online,      \* Config's ONLINE entry of the host: a latency, 0, -1 or none
  broken       \* the network has changed and the socket does not work any more

vars == <<sentAge, respAge, dnsAge, regTimeout, fails, ema, old, online, broken>>

TypeOK ==
  /\ sentAge \in 0..MaxRegTimeout \cup {None}
  /\ respAge \in 0..RegInterval \cup {None}
  /\ dnsAge \in 0..DnsInterval + 1
  /\ regTimeout \in 1..MaxRegTimeout
  /\ fails \in 0..MaxFails2
  /\ ema \in BOOLEAN /\ old \in BOOLEAN /\ broken \in BOOLEAN
  /\ online \in {"latency", "zero", "offline", "none"}

\* The local variables of start_udp.
Fresh ==
  [sentAge |-> None, respAge |-> None, dnsAge |-> 0, regTimeout |-> 1, fails |-> 0]

Init ==
  /\ sentAge = Fresh.sentAge /\ respAge = Fresh.respAge /\ dnsAge = Fresh.dnsAge
  /\ regTimeout = Fresh.regTimeout /\ fails = Fresh.fails
  /\ ema = FALSE /\ old = FALSE /\ online = "none" /\ broken = FALSE

\* Ages grow, up to where nothing more depends on them.
Older(age, limit) == IF age = None \/ age = limit THEN age ELSE age + 1

Timeout == sentAge /= None /\ Older(sentAge, MaxRegTimeout) >= regTimeout
Expired == respAge = None \/ Older(respAge, RegInterval) >= RegInterval

\* A mistake: the check of the name is put off by every failure.
Rebind_PutOff(n) ==
  LET due == n >= MaxFails2 /\ dnsAge = DnsInterval + 1
  IN  /\ dnsAge' = IF n >= MaxFails2 THEN 0 ELSE Older(dnsAge, DnsInterval + 1)
      /\ broken' = (broken /\ ~due)

\* After n failures: resolve the name again and replace the socket, at most
\* once in DNS_INTERVAL.
Rebind(n) ==
  LET due == n >= MaxFails2 /\ Older(dnsAge, DnsInterval + 1) > DnsInterval
  IN  /\ dnsAge' = IF due THEN 0 ELSE Older(dnsAge, DnsInterval + 1)
      /\ broken' = (broken /\ ~due)

\* A mistake: the status stays until the mediator gives up on the server.
Status_Kept(n) ==
  IF n >= MaxFails2 THEN online' = "offline" /\ old' = FALSE ELSE UNCHANGED <<online, old>>

\* A mistake: the latency is taken back and not forgotten.
Status_OldKept(n) ==
  /\ online' = IF n >= MaxFails2 THEN "offline" ELSE IF n >= MaxFails1 THEN "zero" ELSE online
  /\ UNCHANGED old

\* What is shown after n timeouts in a row.
Status(n) ==
  IF n < MaxFails1 THEN UNCHANGED <<online, old>>
  ELSE online' = (IF n >= MaxFails2 THEN "offline" ELSE "zero") /\ old' = FALSE

\* A mistake: the backoff has no end.
Backoff_Unlimited == IF PublicServer THEN regTimeout + 1 ELSE regTimeout

\* The next timeout.
Backoff == IF PublicServer /\ regTimeout < MaxRegTimeout THEN regTimeout + 1 ELSE regTimeout

\* timer.tick(): the request has timed out.
TickTimeout ==
  LET n == IF fails < MaxFails2 THEN fails + 1 ELSE MaxFails2
  IN  /\ Timeout
      /\ regTimeout' = Backoff
      /\ fails' = n
      /\ Status(n)
      /\ Rebind(n)
      /\ sentAge' = 0
      /\ respAge' = Older(respAge, RegInterval)
      /\ UNCHANGED ema

\* timer.tick(): the registration has expired, or nothing is due.
TickOther ==
  /\ ~Timeout
  /\ sentAge' = IF sentAge = None /\ Expired THEN 0 ELSE Older(sentAge, MaxRegTimeout)
  /\ respAge' = Older(respAge, RegInterval)
  /\ dnsAge' = Older(dnsAge, DnsInterval + 1)
  /\ UNCHANGED <<regTimeout, fails, ema, old, online, broken>>

Tick == TickTimeout \/ TickOther

\* update_latency, called for every answer to a registration.
Answered ==
  /\ ~broken
  /\ respAge' = 0 /\ fails' = 0 /\ regTimeout' = 1 /\ sentAge' = None
  /\ UNCHANGED <<dnsAge, broken>>

\* The average is shown if it differs enough from what was shown last, or
\* nothing was.
Show == \/ online' = (IF ema' THEN "latency" ELSE "zero") /\ old' = ema'
        \/ old /\ UNCHANGED <<online, old>>

\* An answer that took more than a second is not measured.
SlowAnswer ==
  /\ sentAge /= None /\ Answered
  /\ UNCHANGED <<ema, old, online>>

\* An answer within a second of the request.
FastAnswer ==
  /\ sentAge = 0 /\ Answered
  /\ ema' = TRUE /\ Show

\* A further answer, such as the one to the key that the first one asked for: no
\* request is remembered, it measures 0 and lowers the average, in the end to 0.
ExtraAnswer ==
  /\ sentAge = None /\ Answered
  /\ ema' \in {FALSE, ema} /\ Show

\* The network changes under the socket.
NetworkChange ==
  /\ ~broken
  /\ broken' = TRUE
  /\ UNCHANGED <<sentAge, respAge, dnsAge, regTimeout, fails, ema, old, online>>

\* start_udp fails, or is asked to exit, and is started again by start_all,
\* which forgets what was shown (Config::reset_online).
StartUdp ==
  /\ sentAge' = Fresh.sentAge /\ respAge' = Fresh.respAge /\ dnsAge' = Fresh.dnsAge
  /\ regTimeout' = Fresh.regTimeout /\ fails' = Fresh.fails
  /\ ema' = FALSE /\ old' = FALSE /\ online' = "none" /\ broken' = FALSE

Next == Tick \/ SlowAnswer \/ FastAnswer \/ ExtraAnswer \/ NetworkChange \/ StartUdp

Spec == Init /\ [][Next]_vars

\* Time passes.
FairSpec == Spec /\ WF_vars(Tick)

\* Time passes and, of the requests sent while the socket works, the server does
\* not leave every one without an answer within a second.
AnswerSpec == FairSpec /\ SF_vars(FastAnswer)

-----------------------------------------------------------------------------
(* Properties.                                                              *)

\* A latency is shown only while the server answers: after two requests in a
\* row without an answer it is taken back (update_latency, the timer).
OnlineFresh == online = "latency" => fails < MaxFails1

\* "In some case of network reconnect old UDP socket not work any more": it is
\* replaced, whatever the backoff of the timeouts makes of DNS_INTERVAL.
SocketReplaced == broken ~> ~broken

\* A server that answers again is shown as online again, although what was shown
\* before the silence may be the same latency: once the network stays up and
\* requests are sent, or the mediator is started anew.
Recovers ==
  <>[]~broken /\ []<>(sentAge = 0) => (online = "offline" ~> online \in {"latency", "none"})
=============================================================================
