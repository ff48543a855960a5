--------------------------------- MODULE Ppp ---------------------------------
(***************************************************************************)
(* The serial port's PPP (src/ports/serial): the state machines of LCP and *)
(* IPCP (p_autom.c, trantab.h), what their layers do when they come up and *)
(* go down (p_xcp.c), the timer, the lines of the modem, and opening and   *)
(* closing (p_misc.c), on the two hosts at the ends of a serial line.  All *)
(* runs in the interrupt except close_ppp, whose event can be interrupted  *)
(* between its actions and the new state.                                  *)
(***************************************************************************)
EXTENDS Integers, SequencesExt, FiniteSetsExt

CONSTANTS
    Plans   \* what can happen: [wants, modem, closes, faults, conf, term], where conf and
            \* term say how often a request is sent, for 12 and for 5 in the code

Sides == {"A", "B"}
Wants == {"VJHC", "DNS"}
PlanSet == [wants : [Sides -> SUBSET Wants], modem : BOOLEAN, closes : SUBSET Sides, faults : Nat,
            conf : Nat \ {0}, term : Nat \ {0}]
ASSUME PppAssumption == Plans \subseteq PlanSet

Peer(s) == CHOOSE o \in Sides : o # s
Machines == {"lcp", "ipcp"}

VARIABLES
    port,       \* each host's flags, machines and cp_send_data (out)
    line,       \* the packets on their way from each host: its send_buffer and the line
    user,       \* what the user of each host is at: "off", "on", "closes", "waits"
    turn,       \* while a modem hangs up: whose ppp_timer is next, both have the same period
    plan,       \* the options asked for, whether modems are between, who may close
    alarms,     \* <<host, machine>> whose restart timer runs, the oldest first
    faults      \* bound of the model: packets lost and timers that are too early

ppp_vars == <<port, line, user, turn, plan, alarms, faults>>

States == {"INITIAL", "STARTING", "CLOSED", "STOPPED", "CLOSING", "STOPPING",
           "REQ_SENT", "ACK_RECVD", "ACK_SENT", "OPENED"}

(***************************************************************************)
(* The transition table                                                    *)
(***************************************************************************)
To(new) == [act |-> <<>>, new |-> new, empty |-> FALSE]
Does(act, new) == [act |-> act, new |-> new, empty |-> FALSE]
\* An event that is not expected: the state becomes 2.
EMPTY == [act |-> <<>>, new |-> "CLOSED", empty |-> TRUE]
tls == "this_layer_start"
tlf == "this_layer_fin"
tlu == "this_layer_up"
tld == "this_layer_down"
irc == "init_restart_cnt"
zrc == "zero_restart_cnt"
scr == "send_conf_req"
sca == "send_conf_ack"
scn == "send_conf_nack"
str == "send_term_req"
sta == "send_term_ack"

\* What a row leaves out at its end is EMPTY.
Column == [LAYUP |-> 1, LAYDOWN |-> 2, OPEN |-> 3, CLOSE |-> 4, TONF |-> 5, TOFATAL |-> 6,
           CREQOK |-> 7, CREQBAD |-> 8, CACK |-> 9, CNAK |-> 10, TREQ |-> 11, TACK |-> 12]
Row(list) == [e \in DOMAIN Column |-> IF Column[e] \in DOMAIN list THEN list[Column[e]] ELSE EMPTY]
trantab == [
  INITIAL |-> Row(<<To("CLOSED"), EMPTY, Does(<<tls>>, "STARTING"), To("INITIAL")>>),
  STARTING |-> Row(<<Does(<<irc, scr>>, "REQ_SENT"), EMPTY, To("STARTING"), Does(<<tlf>>, "INITIAL")>>),
  CLOSED |-> Row(<<EMPTY, To("INITIAL"), Does(<<irc, scr>>, "REQ_SENT"), To("CLOSED"), EMPTY, EMPTY,
      Does(<<sta>>, "CLOSED"), Does(<<sta>>, "CLOSED"), Does(<<sta>>, "CLOSED"), Does(<<sta>>, "CLOSED"),
      Does(<<sta>>, "CLOSED"), To("CLOSED")>>),
  STOPPED |-> Row(<<EMPTY, Does(<<tls>>, "STARTING"), To("STOPPED"), To("CLOSED"), EMPTY, EMPTY,
      Does(<<irc, scr, sca>>, "ACK_SENT"), Does(<<irc, scr, scn>>, "REQ_SENT"),
      Does(<<sta>>, "STOPPED"), Does(<<sta>>, "STOPPED"), Does(<<sta>>, "STOPPED"), To("STOPPED")>>),
  CLOSING |-> Row(<<EMPTY, To("INITIAL"), To("STOPPING"), To("CLOSING"), Does(<<str>>, "CLOSING"),
      Does(<<tlf>>, "CLOSED"), To("CLOSING"), To("CLOSING"), To("CLOSING"), To("CLOSING"),
      Does(<<sta>>, "CLOSING"), Does(<<tlf>>, "CLOSED")>>),
  STOPPING |-> Row(<<EMPTY, To("STARTING"), To("STOPPING"), To("CLOSING"), Does(<<str>>, "STOPPING"),
      Does(<<tlf>>, "STOPPED"), To("STOPPING"), To("STOPPING"), To("STOPPING"), To("STOPPING"),
      Does(<<sta>>, "STOPPING"), Does(<<tlf>>, "STOPPED")>>),
  REQ_SENT |-> Row(<<EMPTY, To("STARTING"), To("REQ_SENT"), Does(<<irc, str>>, "CLOSING"),
      Does(<<scr>>, "REQ_SENT"), Does(<<tlf>>, "STOPPED"), Does(<<sca>>, "ACK_SENT"),
      Does(<<scn>>, "REQ_SENT"), Does(<<irc>>, "ACK_RECVD"), Does(<<irc, scr>>, "REQ_SENT"),
      Does(<<sta>>, "REQ_SENT"), To("REQ_SENT")>>),
  ACK_RECVD |-> Row(<<EMPTY, To("STARTING"), To("ACK_RECVD"), Does(<<irc, str>>, "CLOSING"),
      Does(<<scr>>, "REQ_SENT"), Does(<<tlf>>, "STOPPED"), Does(<<sca, tlu>>, "OPENED"),
      Does(<<scn>>, "ACK_RECVD"), Does(<<scr>>, "REQ_SENT"), Does(<<scr>>, "REQ_SENT"),
      Does(<<sta>>, "REQ_SENT"), To("REQ_SENT")>>),
  ACK_SENT |-> Row(<<EMPTY, To("STARTING"), To("ACK_SENT"), Does(<<irc, str>>, "CLOSING"),
      Does(<<scr>>, "ACK_SENT"), Does(<<tlf>>, "STOPPED"), Does(<<sca>>, "ACK_SENT"),
      Does(<<scn>>, "REQ_SENT"), Does(<<irc, tlu>>, "OPENED"), Does(<<irc, scr>>, "ACK_SENT"),
      Does(<<sta>>, "REQ_SENT"), To("ACK_SENT")>>),
  OPENED |-> Row(<<EMPTY, Does(<<tld>>, "STARTING"), To("OPENED"), Does(<<tld, irc, str>>, "CLOSING"),
      EMPTY, EMPTY, Does(<<tld, scr, sca>>, "ACK_SENT"), Does(<<tld, scr, scn>>, "REQ_SENT"),
      Does(<<tld, scr>>, "REQ_SENT"), Does(<<tld, scr>>, "REQ_SENT"), Does(<<tld, zrc, sta>>, "STOPPING"),
      Does(<<tld, scr>>, "REQ_SENT")>>)]

cnt_init(tries, event) ==
    CASE event \in {"LAYUP", "OPEN", "CREQOK", "CREQBAD", "CACK", "CNAK"} -> tries.conf
      [] event = "CLOSE" -> tries.term
      [] OTHER -> 1

(***************************************************************************)
(* The machines.  While an event is handled the host's record also has the *)
(* packet that came, and what the modem says.                              *)
(***************************************************************************)
\* conf: the options of the request; {} stands for a conf_len of -1.
Machine == [state |-> "INITIAL", cnt |-> 0, identi |-> 0, conf |-> {}, event |-> "NONE"]
\* took: what this host has acknowledged last; odd: an EMPTY entry was used; left: the
\* state close_ppp's event leads to, not assigned yet.
Off(wants) == [lcp |-> Machine, ipcp |-> Machine, flags |-> wants, took |-> {}, out |-> <<>>,
               dtr |-> TRUE, odd |-> FALSE, left |-> "NONE"]
Packet(m, code, id, opts) == [prot |-> m, code |-> code, id |-> id, opts |-> opts]
NoPacket == Packet("none", "none", 0, {})

Options  == {"MRU", "IP_ADDR"} \cup Wants
Packets  == [prot : Machines, code : {"CONF_REQU", "CONF_ACK", "CONF_REJCT", "TERM_REQU", "TERM_ACK"},
             id : Nat, opts : SUBSET Options]
MachineSet == [state : States, cnt : Nat, identi : Nat, conf : SUBSET Options,
               event : {"NONE", "LAYUP", "LAYDOWN"}]
PortSet == [lcp : MachineSet, ipcp : MachineSet,
          flags : SUBSET (Wants \cup {"DONE", "DCD_UP", "DCD_DOWN", "DTR_UP", "DTR_DOWN"}),
          took : SUBSET Options, out : Seq(Packets), dtr : BOOLEAN, odd : BOOLEAN,
          left : States \cup {"NONE"}]

\* identifier: a number that no packet on its way and no machine still has, as long as there
\* is one; a uint8 in the code.
Ids(packets) == {q.id : q \in ToSet(packets)}
Fresh(p) == Min((1 .. 20 \ (p.used \cup Ids(p.out) \cup {p.lcp.identi, p.ipcp.identi})) \cup {20})
\* timer_run and timer_start.
Place(seq, e) == CHOOSE i \in DOMAIN seq : seq[i] = e
Without(seq, e) == IF e \in ToSet(seq) THEN RemoveAt(seq, Place(seq, e)) ELSE seq
Stop(p, m) == [p EXCEPT !.alarms = Without(@, <<p.me, m>>)]
Start(p, m) == [p EXCEPT !.alarms = Append(Without(@, <<p.me, m>>), <<p.me, m>>)]
Send(p, packet) == [p EXCEPT !.out = Append(@, packet)]
Create(p, m) ==
    IF m = "lcp" THEN [p EXCEPT !.lcp.conf = {"MRU"}, !.flags = @ \cup {"DCD_DOWN"}]
    ELSE [p EXCEPT !.ipcp.conf = {"IP_ADDR"} \cup (p.flags \cap Wants)]
\* lcp_options and ipcp_options: what is not rejected.
Known(p, m) == IF m = "lcp" THEN {"MRU"} ELSE {"IP_ADDR"} \cup (p.flags \cap {"VJHC"})
send_req(p, m, code) ==
    LET i == Fresh(p)
    IN  Send([p EXCEPT ![m].identi = i],
             Packet(m, code, i, IF code = "CONF_REQU" THEN p[m].conf ELSE {}))

\* lcp_do_lower: the carrier is there, or is waited for; the line is given up, at once
\* or by the modem.
Lower(p, up) ==
    IF up THEN IF p.carrier THEN [p EXCEPT !.lcp.event = "LAYUP"]
               ELSE [p EXCEPT !.flags = @ \cup {"DCD_UP"}]
    ELSE LET q == [p EXCEPT !.lcp.event = "LAYDOWN", !.flags = @ \ {"DCD_DOWN"}]
         IN  IF p.plan.modem THEN [q EXCEPT !.dtr = FALSE, !.flags = @ \cup {"DTR_DOWN"}]
             ELSE [q EXCEPT !.flags = @ \cup {"DONE"}]

\* Op(v), where TLC evaluates v once, even inside ENABLED.
With(v, Op(_)) == CHOOSE r \in {Op(x) : x \in {v}} : TRUE

\* The function that act names in the table, tlu to sta; Tells is up_down of the machine.
Action(p, m, ev, act, Tells(_, _)) ==
    CASE act = tlu -> Tells(p, TRUE)
      [] act = tld -> Tells(p, FALSE)
      [] act = tls -> IF m = "lcp" THEN Lower(p, TRUE) ELSE p
      [] act = tlf -> IF m = "lcp" THEN Lower(p, FALSE) ELSE p
      [] act = irc -> [Start(p, m) EXCEPT ![m].cnt = cnt_init(p.plan, ev)]
      [] act = zrc -> [Start(p, m) EXCEPT ![m].cnt = 0]
      [] act = scr -> send_req(IF p[m].conf = {} THEN Create(p, m) ELSE p, m, "CONF_REQU")
      [] act = str -> send_req(p, m, "TERM_REQU")
      [] act = sca -> LET q == Send(p, Packet(m, "CONF_ACK", p.pkt.id, p.pkt.opts))
                      IN  IF m = "ipcp" THEN [q EXCEPT !.took = p.pkt.opts] ELSE q
      [] act = scn -> Send(p, Packet(m, "CONF_REJCT", p.pkt.id, p.pkt.opts \ Known(p, m)))
      [] act = sta -> Send(p, Packet(m, "TERM_ACK", p.pkt.id, {}))

\* do_automaton, in two parts: the actions of an event, first, second and third, and the
\* state it leads to.
Nth(p, m, ev, acts, i, Tells(_, _)) == IF i \in DOMAIN acts THEN Action(p, m, ev, acts[i], Tells) ELSE p
Acts(p, m, ev, Tells(_, _)) ==
    LET now == trantab[p[m].state][ev]
    IN  With([p EXCEPT ![m].event = "NONE", !.odd = @ \/ now.empty], LAMBDA q :
        With(Nth(q, m, ev, now.act, 1, Tells), LAMBDA r :
        With(Nth(r, m, ev, now.act, 2, Tells), LAMBDA t : Nth(t, m, ev, now.act, 3, Tells))))
Leads(p, m, new) ==
    IF trantab[new].TONF.act # <<>> THEN [p EXCEPT ![m].state = new]
    ELSE [Stop(p, m) EXCEPT ![m].state = new, ![m].cnt = 0]
Takes(p, m, ev, Tells(_, _)) ==
    With(Acts(p, m, ev, Tells), LAMBDA q : Leads(q, m, trantab[p[m].state][ev].new))

Awake(p) == [p EXCEPT !.flags = @ \ {"DCD_UP"}]
ipcp_up_down(p, up) == [p EXCEPT !.ipcp.conf = IF up THEN @ ELSE {}, !.flags = @ \cup {"DONE"}]
ipcp_event(p, ev) == With(p, LAMBDA q : Takes(q, "ipcp", ev, ipcp_up_down))
\* Plausible slip: the layer above is not told that the line is gone.
TellsNobody(p, up) == IF up THEN ipcp_event(Awake(p), "LAYUP") ELSE [p EXCEPT !.lcp.conf = {}]
lcp_up_down(p, up) ==
    IF up THEN ipcp_event(Awake(p), "LAYUP") ELSE ipcp_event([Awake(p) EXCEPT !.lcp.conf = {}], "LAYDOWN")

\* An action of LCP may raise another event. No chain is longer than TOFATAL, LAYDOWN, LAYUP.
lcp_event(p, ev) == With(p, LAMBDA q : Takes(q, "lcp", ev, lcp_up_down))
Again(p) == IF p.lcp.event = "NONE" THEN p ELSE lcp_event(p, p.lcp.event)
Chain(p) == With(p, LAMBDA q : With(Again(q), Again))
do_automaton(p, m, ev) == IF m = "lcp" THEN Chain(lcp_event(p, ev)) ELSE ipcp_event(p, ev)
user_event(p, m, ev) == do_automaton(Awake(p), m, ev)

timer_event(p, m) ==
    IF p[m].cnt > 1 THEN do_automaton([Start(p, m) EXCEPT ![m].cnt = @ - 1], m, "TONF")
    ELSE do_automaton([Stop(p, m) EXCEPT ![m].cnt = 0], m, "TOFATAL")

\* Plausible slip: a late answer to an older request is taken.
AnyAnswer(p, m) == TRUE
Answers(p, m) == p.pkt.id = p[m].identi

\* Plausible slip: what was rejected is asked for again.
AsksAgain(p, m) == p
proc_reject(p, m) == [p EXCEPT ![m].conf = @ \ p.pkt.opts]

network_event(p, m) ==
    CASE p.pkt.code = "CONF_REQU" -> do_automaton(p, m, IF p.pkt.opts \subseteq Known(p, m) THEN "CREQOK" ELSE "CREQBAD")
      [] p.pkt.code = "CONF_ACK" -> IF Answers(p, m) THEN do_automaton(p, m, "CACK") ELSE p
      [] p.pkt.code = "CONF_REJCT" ->
           IF Answers(p, m) THEN do_automaton(proc_reject(p, m), m, "CNAK") ELSE p
      [] p.pkt.code = "TERM_REQU" -> do_automaton(p, m, "TREQ")
      [] p.pkt.code = "TERM_ACK" -> do_automaton(p, m, "TACK")

\* Plausible slip: IPCP is negotiated before the link is open.
TakesEarly(p) == network_event(p, p.pkt.prot)
ppp_control(p) == IF p.pkt.prot = "ipcp" /\ p.lcp.state # "OPENED" THEN p ELSE network_event(p, p.pkt.prot)

link_maintain(p) ==
    LET q == IF "DTR_DOWN" \notin p.flags THEN p
             ELSE IF "DTR_UP" \notin p.flags THEN [p EXCEPT !.flags = @ \cup {"DTR_UP"}]
             ELSE [p EXCEPT !.flags = (@ \ {"DTR_DOWN", "DTR_UP"}) \cup {"DONE"}, !.dtr = TRUE]
    IN  IF p.carrier THEN IF "DCD_UP" \in q.flags THEN user_event(q, "lcp", "LAYUP") ELSE q
        ELSE IF "DCD_DOWN" \notin q.flags THEN q
        ELSE user_event([q EXCEPT !.flags = (@ \ {"DCD_DOWN"}) \cup {"DTR_DOWN"}, !.dtr = FALSE], "lcp", "LAYDOWN")

\* The event of PAP's machine, which is always closed, only clears DCD_UP.
open_ppp(p) ==
    LET q == [p EXCEPT !.flags = @ \cap Wants, !.lcp.conf = {}, !.ipcp.conf = {},
                       !.ipcp.state = "INITIAL", !.odd = FALSE]
        r == user_event(user_event(q, "lcp", "OPEN"), "ipcp", "OPEN")
    IN  [r EXCEPT !.flags = @ \ {"DCD_UP"}]

(***************************************************************************)
(* The two hosts                                                           *)
(***************************************************************************)
PppInit ==
    /\ plan \in Plans
    /\ port = [s \in Sides |-> Off(plan.wants[s])]
    /\ line = [s \in Sides |-> <<>>]
    /\ user = [s \in Sides |-> "off"]
    /\ turn = "any"
    /\ alarms = <<>>
    /\ faults = plan.faults

Active(s) == user[s] # "off"
Quiet == \A s \in Sides : line[s] = <<>> /\ (Active(s) => port[s].out = <<>>)

Carrier(s) == plan.modem => port[Peer(s)].dtr
\* The host's record while it works, and what is left of it afterwards.
At(s, pkt) ==
    LET h == port[s]
    IN  [lcp |-> h.lcp, ipcp |-> h.ipcp, flags |-> h.flags, took |-> h.took, out |-> h.out,
         dtr |-> h.dtr, odd |-> h.odd, left |-> h.left, me |-> s, pkt |-> pkt, alarms |-> alarms,
         used |-> UNION {Ids(line[o]) \cup Ids(port[o].out) : o \in Sides},
         plan |-> plan, carrier |-> Carrier(s)]
Becomes(s, p) ==
    \E q \in {p} : /\ port' = [port EXCEPT ![s] = Restrict(q, DOMAIN port[s])]
                   /\ alarms' = q.alarms
\* While a modem hangs up, all that is sent is lost.
Keeps(lines) == line' = IF \A s \in Sides : port'[s].dtr THEN lines ELSE [s \in Sides |-> <<>>]

\* on_port: the port is not active before this is done. A dialer has it called when
\* the modem is connected.
Open(s) ==
    /\ user[s] = "off" /\ Carrier(s)
    /\ user' = [user EXCEPT ![s] = "on"]
    /\ \E w \in IF s \in plan.closes THEN {port[s].flags \cap Wants, {}} ELSE {plan.wants[s]} :
           Becomes(s, open_ppp([At(s, NoPacket) EXCEPT !.flags = w]))
    /\ UNCHANGED <<line, turn, plan, faults>>

\* ppp_do_cp: all that waits goes to the send buffer, when that is empty.
Flush(s) ==
    /\ Active(s) /\ line[s] = <<>> /\ port[s].out # <<>>
    /\ port' = [port EXCEPT ![s].out = <<>>]
    /\ Keeps([line EXCEPT ![s] = port[s].out])
    /\ UNCHANGED <<alarms, user, turn, plan, faults>>

\* The packet of the other host arrives; what arrives at a port that is off is thrown away.
Arrive(s) ==
    LET o == Peer(s)
    IN  /\ line[o] # <<>>
        /\ IF Active(s) THEN Becomes(s, ppp_control(At(s, Head(line[o])))) ELSE UNCHANGED <<port, alarms>>
        /\ Keeps([line EXCEPT ![o] = Tail(@)])
        /\ UNCHANGED <<user, turn, plan, faults>>

Lose(s) ==
    /\ faults > 0 /\ line[s] # <<>>
    /\ faults' = faults - 1
    /\ line' = [line EXCEPT ![s] = Tail(@)]
    /\ UNCHANGED <<port, user, turn, plan, alarms>>

\* The restart timers all take 2 s, longer than a packet and its answer.  (That of
\* zero_restart_cnt takes 3 s: it is here no longer than the others.)
Ring(s, m) ==
    /\ Becomes(s, timer_event(At(s, NoPacket), m))
    /\ Keeps(line)
    /\ UNCHANGED <<user, turn, plan>>
Runs(s, m) == Active(s) /\ port[s].left = "NONE" /\ <<s, m>> \in ToSet(alarms)
Timer(s, m) ==
    /\ Runs(s, m) /\ Quiet /\ \A i \in 1 .. Place(alarms, <<s, m>>) - 1 : ~Runs(alarms[i][1], alarms[i][2])
    /\ Ring(s, m)
    /\ UNCHANGED faults
\* ... but for a delay.
TooEarly(s, m) ==
    /\ Runs(s, m) /\ faults > 0
    /\ Ring(s, m)
    /\ faults' = faults - 1

\* What waits is sent, and lost, before the modem is back.
HangsUp(s) == ~port[s].dtr \/ port[s].flags \cap {"DTR_DOWN", "DCD_UP"} # {}
Maintain(s) ==
    /\ plan.modem /\ turn # Peer(s) /\ \E o \in Sides : HangsUp(o)
    /\ (\E o \in Sides : ~port[o].dtr) => Quiet
    /\ IF Active(s) THEN Becomes(s, link_maintain(At(s, NoPacket))) ELSE UNCHANGED <<port, alarms>>
    /\ Keeps(line)
    /\ turn' = IF \E o \in Sides : HangsUp(o)' THEN Peer(s) ELSE "any"
    /\ UNCHANGED <<user, plan, faults>>

\* close_ppp, in the task: the timer and packets come between the actions of its
\* event and the state they lead to.
Close(s) ==
    /\ user[s] = "on" /\ s \in plan.closes
    /\ user' = [user EXCEPT ![s] = "closes"]
    /\ LET p == Acts([At(s, NoPacket) EXCEPT !.flags = @ \ {"DONE", "DCD_UP"}], "lcp", "CLOSE", lcp_up_down)
       IN  Becomes(s, [p EXCEPT !.left = trantab[port[s].lcp.state].CLOSE.new])
    /\ UNCHANGED <<line, turn, plan, faults>>

Closing(s) ==
    /\ user[s] = "closes"
    /\ user' = [user EXCEPT ![s] = "waits"]
    /\ Becomes(s, [Chain(Leads(At(s, NoPacket), "lcp", port[s].left)) EXCEPT !.left = "NONE"])
    /\ Keeps(line)
    /\ UNCHANGED <<turn, plan, faults>>

\* The wait ends with DONE, or after 15 s; the send buffer goes with what is in it.
Closed(s) ==
    /\ user[s] = "waits"
    /\ "DONE" \in port[s].flags \/ (Quiet /\ \A m \in Machines : ~Runs(s, m))
    /\ user' = [user EXCEPT ![s] = "off"]
    /\ port' = [port EXCEPT ![s].lcp.state = "INITIAL", ![s].ipcp.state = "INITIAL"]
    /\ \E n \in 0 .. Len(line[s]) : line' = [line EXCEPT ![s] = SubSeq(@, 1, n)]
    /\ plan' = [plan EXCEPT !.closes = @ \ {s}]
    /\ UNCHANGED <<turn, alarms, faults>>

Soon(s) == Flush(s) \/ Arrive(s) \/ Closing(s) \/ Closed(s)
Timeout == \E s \in Sides, m \in Machines : Timer(s, m)
Later(s) == Lose(s) \/ Close(s) \/ \E m \in Machines : TooEarly(s, m)
PppNext == Timeout \/ \E s \in Sides : Open(s) \/ Soon(s) \/ Maintain(s) \/ Later(s)

\* The interrupts go on, and so do the tasks.
PppSpec ==
    /\ PppInit /\ [][PppNext]_ppp_vars
    /\ WF_ppp_vars(Timeout)
    /\ \A s \in Sides : WF_ppp_vars(Open(s)) /\ WF_ppp_vars(Soon(s)) /\ WF_ppp_vars(Maintain(s))

(***************************************************************************)
(* Properties                                                              *)
(***************************************************************************)
\* The machines are in a state of the table, between the steps of the interrupt and of close_ppp.
PppTypes ==
    /\ port \in [Sides -> PortSet] /\ line \in [Sides -> Seq(Packets)]
    /\ user \in [Sides -> {"off", "on", "closes", "waits"}]
    /\ turn \in Sides \cup {"any"} /\ plan \in PlanSet /\ faults \in Nat
    /\ alarms \in Seq(Sides \X Machines)
    /\ \A s \in Sides : user[s] = "closes" => port[s].left \in States

\* IPCP is negotiated only over an open link: when LCP leaves OPENED, whatever the reason, it
\* takes IPCP down with it (this_layer_down, p_xcp.c:58), and ppp_control lets no packet of
\* IPCP through before LCP is open again.
LayersAgree ==
    \A s \in Sides : user[s] = "on" /\ port[s].lcp.state # "OPENED"
        => port[s].ipcp.state \in {"INITIAL", "STARTING", "CLOSED"}

\* Without a modem no event meets an EMPTY entry of the table, which would close the machine
\* for good (p_autom.c:158): not even a late packet, a timer or the user of the other host.
Expected == ~plan.modem => \A s \in Sides : user[s] = "on" => ~port[s].odd

\* Two hosts whose IPCP is open, with nothing on its way, have agreed on the same: each has
\* acknowledged the request the other asks with, though requests were rejected, lost,
\* repeated, and made anew by a user with other options.
Agreed ==
    (\A s \in Sides : user[s] = "on" /\ port[s].ipcp.state = "OPENED") /\ Quiet
        => \A s \in Sides : port[s].ipcp.conf = port[Peer(s)].took

\* Two hosts that stay on come to an open IPCP, though packets were lost: unless one of them
\* began anew from OPENED, which starts no restart timer (trantab.h:98), and waits for ever.
Opened == \A s \in Sides : user[s] = "on" /\ port[s].ipcp.state = "OPENED"
Waits == \E s \in Sides, m \in Machines :
    port[s][m].state \in {"REQ_SENT", "ACK_RECVD", "ACK_SENT"} /\ <<s, m>> \notin ToSet(alarms)
Negotiates == plan.closes = {} /\ ~plan.modem => <>[](Opened \/ Waits)

(***************************************************************************)
(* What the proofs rest on                                                 *)
(***************************************************************************)
\* A restart timer runs only for a machine that waits for an answer: whatever event takes it to
\* another state stops the timer (p_autom.c:175), which would find an EMPTY entry in OPENED.
Timed == {"CLOSING", "STOPPING", "REQ_SENT", "ACK_RECVD", "ACK_SENT"}
TimersAreDue ==
    \A s \in Sides, m \in Machines :
        user[s] = "on" /\ <<s, m>> \in ToSet(alarms) => port[s][m].state \in Timed

\* No machine has two timers, and between steps no event that an action raised is left: the
\* chain was long enough.
OneTimerEach == \A i, j \in DOMAIN alarms : alarms[i] = alarms[j] => i = j
NothingRaised == \A s \in Sides : user[s] # "closes" => port[s].lcp.event = "NONE"

\* The host h is on: the line is not waited for while the link is open, and without a modem
\* the two machines are in one of these states.
Below == {"INITIAL", "STARTING", "CLOSED"}
Layered(h) ==
    /\ h.lcp.state # "OPENED" => h.ipcp.state \in Below
    /\ "DCD_UP" \in h.flags => h.lcp.state # "OPENED"
Straight(h) ==
    /\ ~h.odd
    /\ \/ h.lcp.state = "OPENED" /\ h.ipcp.state \in States \ (Below \cup {"CLOSING"})
       \/ h.lcp.state \in Timed \ {"CLOSING"} /\ h.ipcp.state = "STARTING"

PppInv ==
    /\ PppTypes /\ OneTimerEach /\ TimersAreDue /\ NothingRaised
    /\ \A s \in Sides :
         /\ user[s] = "off" => port[s].lcp.state = "INITIAL"
         /\ user[s] = "on" => Layered(port[s]) /\ (~plan.modem => Straight(port[s]))
=============================================================================
