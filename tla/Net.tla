-------------------------------- MODULE Net --------------------------------
(***************************************************************************)
(* The network stack (source/net.c): one system call of the running        *)
(* program, net_send or net_recv, and the interrupt of the card, which     *)
(* runs net_handler between any two steps of that call.  Both share        *)
(* snd_buff, tmp_buff, the mailbox of one packet, the address table and    *)
(* the registers of the card.  net_recv calls net_handler too.             *)
(*                                                                         *)
(* The card is external: pages of received packets between BNRY and CURR,  *)
(* the RX and RDC (remote DMA complete) bits of its interrupt status, one  *)
(* DMA channel and a page to transmit from.  A packet takes one page.  A   *)
(* packet is who sent it and its number in the order of arrival.           *)
(*                                                                         *)
(* An operator named f_x is f with a plausible bug x, for checking that a  *)
(* property would notice it; nothing uses it.                              *)
(***************************************************************************)
EXTENDS Integers, Sequences, FiniteSetsExt

CONSTANTS
  LocalIP, Gate,     (* local_ip, local_gate.                              *)
  LocalNet,          (* The addresses that local_net covers.               *)
  ARP_TABLE_LEN,
  TRIES,             (* Requests provide_mac_address makes: 16.            *)
  Dsts, Msgs,        (* What programs send, and where.                     *)
  Packets,           (* What arrives: [kind, from, mac].                   *)
  PAGES,             (* Pages of the receive ring.                         *)
  ARRIVALS,          (* Bound: packets that arrive.                        *)
  Calm               (* Windows in which none arrives: subset of Windows.  *)

(* The packet falls while the bytes of a frame are put into the card; or   *)
(* between the handler's last look at CURR and the clearing of RX; or      *)
(* within net_recv's reading of the status; or is a request for the local  *)
(* address and falls into a net_send.                                      *)
Windows == {"load", "clear", "poll", "answer"}

ASSUME TableAssumption == ARP_TABLE_LEN \in Nat /\ ARP_TABLE_LEN >= 2
ASSUME TriesAssumption == TRIES \in Nat \ {0}
ASSUME RingAssumption  == PAGES \in Nat /\ PAGES >= 3 /\ ARRIVALS \in Nat
ASSUME NetAssumption   == Gate \in LocalNet /\ LocalIP \in LocalNet
ASSUME CalmAssumption  == Calm \subseteq Windows
ASSUME KindAssumption  == \A p \in Packets : p.kind \in {"udp", "reply", "request", "other"}

VARIABLES
  nic,       (* the card: mem[page], curr, bndry, rx, rdc, dma, tx         *)
  rx_next,   (* page of the next packet                                    *)
  tmp_buff,  (* the packet being processed                                 *)
  mail,      (* rcv_size, rcv_addr, rcv_buff                               *)
  arp_table, (* arp_table[i]: ip and mac of entry i                        *)
  snd_buff,  (* the frame being built                                      *)
  ctx,       (* net_handler in progress, of the interrupt and of net_recv  *)
  task,      (* the system call in progress                                *)
  wire,      (* history: the last frame transmitted                        *)
  got,       (* history: the last packet net_recv returned                 *)
  log        (* history: the packets that arrived                          *)

vars == <<nic, rx_next, tmp_buff, mail, arp_table, snd_buff, ctx, task, wire, got, log>>

Pages     == 0 .. PAGES - 1
After(p)  == (p + 1) % PAGES
Before_straight(p) == p - 1
Before(p) == (p + PAGES - 1) % PAGES
NoPage    == -1                    (* info.next of a page never written    *)
NoPacket  == [kind |-> "none", from |-> LocalIP, mac |-> LocalIP, n |-> 0]

Nobody    == "nobody"
Broadcast == "broadcast"           (* its address and its hardware address *)
LocalMac  == "local"
Frame(kind, to, data) == [kind |-> kind, to |-> to, data |-> data]
NoFrame   == Frame("none", Nobody, Nobody)
Mixed     == Frame("mixed", Nobody, Nobody)

-----------------------------------------------------------------------------
(* Addresses.                                                              *)

Entries    == 0 .. ARP_TABLE_LEN - 1
FreeSlot   == [ip |-> Nobody, mac |-> Nobody]
LocalEntry == -1
NoEntry    == -2

get_effective_ip(ip) == IF ip \in LocalNet THEN ip ELSE Gate

(* The result is where the hardware address is, as the pointer of the code.*)
find_mac_in_table(ip) ==
  LET found == {i \in Entries : arp_table[i].ip = ip}
  IN  CASE ip = LocalIP -> LocalEntry
        [] ip # LocalIP /\ found # {} -> Min(found)
        [] OTHER -> NoEntry

MacAt(i) == IF i = LocalEntry THEN LocalMac ELSE arp_table[i].mac

(* The entry a reply from ip goes to: its own, the first free or the last. *)
EntryFor_free(ip) ==
  Min({ARP_TABLE_LEN - 1} \cup {i \in Entries : arp_table[i].ip = Nobody})
EntryFor(ip) ==
  IF find_mac_in_table(ip) # NoEntry THEN find_mac_in_table(ip)
  ELSE Min({ARP_TABLE_LEN - 1} \cup {i \in Entries : arp_table[i].ip = Nobody})

-----------------------------------------------------------------------------
(* net_handler, in the context c of the interrupt or of net_recv.          *)

Contexts == {"irq", "task"}
NoHandler == [pc |-> "off", rx |-> FALSE, rdc |-> FALSE, more |-> FALSE]
Step(c, from, to) == /\ ctx[c].pc = from
                     /\ ctx' = [ctx EXCEPT ![c].pc = to]

(* The interrupt preempts the call; its request is taken at once, but for  *)
(* a packet that arrives within the instruction that reads the status.     *)
Runs(c) == c = "irq" \/ (ctx["irq"].pc = "off" /\ ~nic.rx)
Latent(c) == c = "task" /\ "poll" \notin Calm /\ ctx["irq"].pc = "off"

(* Read the status; done when no bit is set.                               *)
ReadStatus(c) ==
  /\ Runs(c) \/ Latent(c)
  /\ ctx[c].pc = "read"
  /\ ctx' = [ctx EXCEPT ![c] =
       [pc   |-> CASE ~nic.rx /\ ~nic.rdc -> "off"
                   [] nic.rx /\ nic.bndry # nic.curr -> "receive"
                   [] OTHER -> "clear",
        rx   |-> nic.rx,
        rdc  |-> nic.rdc,
        more |-> FALSE]]
  /\ UNCHANGED <<nic, rx_next, tmp_buff, mail, arp_table, snd_buff, task, wire, got, log>>

(* ne2k_receive fetches the page at rx_next with two DMA reads, whatever   *)
(* it holds, frees it, and compares with CURR and BNRY before it looks at  *)
(* the packet.                                                             *)
Receive(c) ==
  LET page  == nic.mem[rx_next]
      last  == page.next = NoPage
      bndry == IF last THEN nic.bndry ELSE Before(page.next)
      more  == ~last /\ page.next # nic.curr /\ bndry # nic.curr
  IN  /\ Runs(c)
      /\ ctx[c].pc = "receive"
      /\ ctx' = [ctx EXCEPT ![c].pc = "process", ![c].more = more]
      /\ tmp_buff' = page.pkt
      /\ rx_next' = IF last THEN rx_next ELSE page.next
      /\ nic' = [nic EXCEPT !.bndry = bndry, !.dma = "none", !.rdc = FALSE]
      /\ UNCHANGED <<mail, arp_table, snd_buff, task, wire, got, log>>

(* Where ne2k_receive goes after a packet.                                 *)
Onward_once(c) == "clear"
Onward(c) == IF ctx[c].more THEN "receive" ELSE "clear"

(* A datagram with room in the mailbox; any other is discarded.            *)
AcceptUdp(c) ==
  /\ Runs(c) /\ tmp_buff.kind = "udp"
  /\ Step(c, "process", IF mail.size > 0 THEN Onward(c) ELSE "store")
  /\ UNCHANGED <<nic, rx_next, tmp_buff, mail, arp_table, snd_buff, task, wire, got, log>>

(* rcv_size and rcv_addr are set before the data is copied.                *)
StoreHead(c) ==
  /\ Runs(c) /\ Step(c, "store", "copy")
  /\ mail' = [mail EXCEPT !.size = 1, !.addr = tmp_buff.from]
  /\ UNCHANGED <<nic, rx_next, tmp_buff, arp_table, snd_buff, task, wire, got, log>>

StoreData(c) ==
  /\ Runs(c) /\ Step(c, "copy", Onward(c))
  /\ mail' = [mail EXCEPT !.data = tmp_buff.n]
  /\ UNCHANGED <<nic, rx_next, tmp_buff, arp_table, snd_buff, task, wire, got, log>>

(* A reply to an address request.                                          *)
LearnAddress(c) ==
  /\ Runs(c) /\ tmp_buff.kind = "reply"
  /\ Step(c, "process", Onward(c))
  /\ arp_table' = [arp_table EXCEPT ![EntryFor(tmp_buff.from)] =
                     [ip |-> tmp_buff.from, mac |-> tmp_buff.mac]]
  /\ UNCHANGED <<nic, rx_next, tmp_buff, mail, snd_buff, task, wire, got, log>>

(* An address request is answered at once: arp_reply builds the answer in  *)
(* snd_buff and ne2k_send loads and transmits it.                          *)
AnswerRequest(c) ==
  LET reply == Frame("reply", tmp_buff.mac, Nobody)
  IN  /\ Runs(c) /\ tmp_buff.kind = "request"
      /\ Step(c, "process", Onward(c))
      /\ snd_buff' = reply
      /\ wire' = reply
      /\ nic' = [nic EXCEPT !.tx = reply, !.dma = "none", !.rdc = FALSE]
      /\ UNCHANGED <<rx_next, tmp_buff, mail, arp_table, task, got, log>>

(* Any other protocol, and what a page never written holds.                *)
IgnorePacket(c) ==
  /\ Runs(c) /\ tmp_buff.kind \in {"other", "none"}
  /\ Step(c, "process", Onward(c))
  /\ UNCHANGED <<nic, rx_next, tmp_buff, mail, arp_table, snd_buff, task, wire, got, log>>

(* Clear the bits that were read, and read the status again.               *)
ClearStatus(c) ==
  /\ Runs(c) /\ Step(c, "clear", "read")
  /\ nic' = [nic EXCEPT !.rx = @ /\ ~ctx[c].rx, !.rdc = @ /\ ~ctx[c].rdc]
  /\ UNCHANGED <<rx_next, tmp_buff, mail, arp_table, snd_buff, task, wire, got, log>>

net_handler(c) ==
  \/ ReadStatus(c) \/ Receive(c) \/ ClearStatus(c)
  \/ AcceptUdp(c) \/ StoreHead(c) \/ StoreData(c)
  \/ LearnAddress(c) \/ AnswerRequest(c) \/ IgnorePacket(c)

(* IRQNET_handler.  No second one runs before the first has sent its EOI.  *)
Interrupt ==
  /\ nic.rx /\ Step("irq", "off", "read")
  /\ UNCHANGED <<nic, rx_next, tmp_buff, mail, arp_table, snd_buff, task, wire, got, log>>

-----------------------------------------------------------------------------
(* net_send.  The call's locals: whom it sends what, the address it is     *)
(* looking up, the requests made, the entry found, and where ne2k_send     *)
(* returns to.                                                             *)

NoCall == [pc |-> "idle", dst |-> LocalIP, msg |-> Nobody, ip |-> LocalIP, i |-> 0,
           entry |-> NoEntry, ret |-> "idle", addr |-> Nobody, data |-> 0]

Task(from, to) == /\ Runs("task") /\ ctx["task"].pc = "off" /\ task.pc = from
                  /\ task' = [task EXCEPT !.pc = to]
CardKept == UNCHANGED <<rx_next, tmp_buff, ctx, log>>

net_send ==
  \E dst \in Dsts, msg \in Msgs :
    /\ Runs("task") /\ ctx["task"].pc = "off" /\ task.pc = "idle"
    /\ task' = [NoCall EXCEPT !.pc = "find", !.dst = dst, !.msg = msg,
                              !.ip = get_effective_ip(dst)]
    /\ CardKept /\ UNCHANGED <<nic, mail, arp_table, snd_buff, wire, got>>

(* provide_mac_address of the destination, then of the gateway.            *)
AddressFound ==
  /\ Runs("task") /\ task.pc = "find" /\ find_mac_in_table(task.ip) # NoEntry
  /\ \/ /\ task.entry = NoEntry       (* the destination's, then the gate's *)
        /\ task' = [task EXCEPT !.ip = Gate, !.i = 0,
                                !.entry = find_mac_in_table(task.ip)]
     \/ /\ task.entry # NoEntry
        /\ task' = [task EXCEPT !.pc = "fill"]
  /\ CardKept /\ UNCHANGED <<nic, mail, arp_table, snd_buff, wire, got>>

arp_request_endless ==
  /\ find_mac_in_table(task.ip) = NoEntry /\ task.i < TRIES
  /\ Runs("task") /\ task.pc = "find"
  /\ task' = [task EXCEPT !.pc = "load", !.ret = "find"]
  /\ snd_buff' = Frame("request", Broadcast, Nobody)
  /\ CardKept /\ UNCHANGED <<nic, mail, arp_table, wire, got>>
arp_request ==
  /\ find_mac_in_table(task.ip) = NoEntry /\ task.i < TRIES
  /\ Runs("task") /\ task.pc = "find"
  /\ task' = [task EXCEPT !.pc = "load", !.ret = "find", !.i = @ + 1]
  /\ snd_buff' = Frame("request", Broadcast, Nobody)
  /\ CardKept /\ UNCHANGED <<nic, mail, arp_table, wire, got>>

GiveUp ==
  /\ find_mac_in_table(task.ip) = NoEntry /\ task.i >= TRIES
  /\ Task("find", "idle")
  /\ CardKept /\ UNCHANGED <<nic, mail, arp_table, snd_buff, wire, got>>

(* udp_send clears snd_buff and puts the datagram in it.                   *)
udp_send_early ==
  /\ Task("fill", "ip")
  /\ CardKept /\ UNCHANGED <<nic, mail, arp_table, snd_buff, wire, got>>
udp_send ==
  /\ Task("fill", "ip")
  /\ snd_buff' = Frame("udp", Nobody, task.msg)
  /\ CardKept /\ UNCHANGED <<nic, mail, arp_table, wire, got>>

(* ip_send puts its header before what the buffer holds by now, and looks  *)
(* the address up again.                                                   *)
ip_send ==
  LET entry == find_mac_in_table(get_effective_ip(task.dst))
  IN  /\ Runs("task") /\ task.pc = "ip"
      /\ task' = [task EXCEPT !.pc = IF entry = NoEntry THEN "idle" ELSE "eth",
                              !.entry = entry]
      /\ snd_buff' = IF snd_buff.kind = "udp" THEN snd_buff ELSE Mixed
      /\ CardKept /\ UNCHANGED <<nic, mail, arp_table, wire, got>>

(* eth_send reads the hardware address where ip_send found it.             *)
eth_send ==
  /\ Runs("task") /\ task.pc = "eth"
  /\ task' = [task EXCEPT !.pc = "load", !.ret = "idle"]
  /\ snd_buff' = IF snd_buff.kind = "udp"
                 THEN [snd_buff EXCEPT !.to = MacAt(task.entry)] ELSE Mixed
  /\ CardKept /\ UNCHANGED <<nic, mail, arp_table, wire, got>>

(* ne2k_send: start a DMA write, put the bytes, wait for the bit that says *)
(* it is complete, transmit.  Bytes put when no write is in progress are   *)
(* lost.                                                                   *)
StartWrite ==
  /\ Task("load", "bytes")
  /\ nic' = [nic EXCEPT !.dma = "write"]
  /\ CardKept /\ UNCHANGED <<mail, arp_table, snd_buff, wire, got>>

PutBytes ==
  /\ Task("bytes", "loaded")
  /\ nic' = IF nic.dma = "write"
            THEN [nic EXCEPT !.dma = "none", !.rdc = TRUE, !.tx = snd_buff]
            ELSE nic
  /\ CardKept /\ UNCHANGED <<mail, arp_table, snd_buff, wire, got>>

AwaitWrite ==
  /\ nic.rdc /\ Task("loaded", "start")
  /\ nic' = [nic EXCEPT !.rdc = FALSE]
  /\ CardKept /\ UNCHANGED <<mail, arp_table, snd_buff, wire, got>>

Transmit ==
  /\ Task("start", task.ret)
  /\ wire' = nic.tx
  /\ CardKept /\ UNCHANGED <<nic, mail, arp_table, snd_buff, got>>

-----------------------------------------------------------------------------
(* net_recv: handle what is pending, then look into the mailbox.           *)

net_recv ==
  /\ Runs("task") /\ ctx["task"].pc = "off" /\ task.pc = "idle"
  /\ task' = [NoCall EXCEPT !.pc = "mailbox"]
  /\ ctx' = [ctx EXCEPT !["task"].pc = "read"]
  /\ UNCHANGED <<nic, rx_next, tmp_buff, mail, arp_table, snd_buff, wire, got, log>>

LookIntoMailbox_clears ==
  /\ Task("mailbox", IF mail.size > 0 THEN "addr" ELSE "idle")
  /\ mail' = [mail EXCEPT !.size = 0]
  /\ CardKept /\ UNCHANGED <<nic, arp_table, snd_buff, wire, got>>
LookIntoMailbox ==
  /\ Task("mailbox", IF mail.size > 0 THEN "addr" ELSE "idle")
  /\ CardKept /\ UNCHANGED <<nic, mail, arp_table, snd_buff, wire, got>>

CopyAddress ==
  /\ Runs("task") /\ task.pc = "addr"
  /\ task' = [task EXCEPT !.pc = "data", !.addr = mail.addr]
  /\ CardKept /\ UNCHANGED <<nic, mail, arp_table, snd_buff, wire, got>>

CopyData ==
  /\ Runs("task") /\ task.pc = "data"
  /\ task' = [task EXCEPT !.pc = "release", !.data = mail.data]
  /\ CardKept /\ UNCHANGED <<nic, mail, arp_table, snd_buff, wire, got>>

ReleaseMailbox ==
  /\ Task("release", "idle")
  /\ mail' = [mail EXCEPT !.size = 0]
  /\ got' = [addr |-> task.addr, data |-> task.data]
  /\ CardKept /\ UNCHANGED <<nic, arp_table, snd_buff, wire>>

-----------------------------------------------------------------------------

(* A packet arrives for this machine: the card stores it if a page is left *)
(* before BNRY and raises RX.                                              *)
Sending == {"find", "fill", "ip", "eth", "load", "bytes", "loaded", "start"}
Falls(p, w) ==
  CASE w = "load"   -> task.pc \in {"bytes", "loaded"}
    [] w = "clear"  -> \E c \in Contexts : /\ ctx[c].pc \in {"process", "store", "copy", "clear"}
                                           /\ ~ctx[c].more
    [] w = "answer" -> p.kind = "request" /\ task.pc \in Sending
    [] w = "poll"   -> FALSE    (* see Latent *)

Arrive ==
  \E p \in Packets :
    LET pkt == [kind |-> p.kind, from |-> p.from, mac |-> p.mac, n |-> Len(log) + 1]
    IN  /\ Len(log) < ARRIVALS
        /\ \A w \in Calm : ~Falls(p, w)
        /\ After(nic.curr) # nic.bndry
        /\ nic' = [nic EXCEPT !.mem[nic.curr] = [pkt |-> pkt, next |-> After(nic.curr)],
                              !.curr = After(nic.curr), !.rx = TRUE]
        /\ log' = Append(log, pkt)
        /\ UNCHANGED <<rx_next, tmp_buff, mail, arp_table, snd_buff, ctx, task, wire, got>>

(* What net_init leaves.                                                   *)
Init ==
  /\ nic = [mem |-> [p \in Pages |-> [pkt |-> NoPacket, next |-> NoPage]],
            curr |-> 1, bndry |-> 0, rx |-> FALSE, rdc |-> FALSE,
            dma |-> "none", tx |-> NoFrame]
  /\ rx_next = 1
  /\ tmp_buff = NoPacket
  /\ mail = [size |-> 0, addr |-> Nobody, data |-> 0]
  /\ arp_table = [i \in Entries |->
                    IF i = 0 THEN [ip |-> Broadcast, mac |-> Broadcast] ELSE FreeSlot]
  /\ snd_buff = NoFrame
  /\ ctx = [c \in Contexts |-> NoHandler]
  /\ task = NoCall
  /\ wire = NoFrame
  /\ got = [addr |-> Nobody, data |-> 0]
  /\ log = <<>>

SendStep == \/ AddressFound \/ arp_request \/ GiveUp \/ udp_send \/ ip_send \/ eth_send
            \/ StartWrite \/ PutBytes \/ AwaitWrite \/ Transmit
RecvStep == LookIntoMailbox \/ CopyAddress \/ CopyData \/ ReleaseMailbox
CallStep == SendStep \/ RecvStep \/ net_handler("task")
IrqStep  == Interrupt \/ net_handler("irq")

Next == Arrive \/ net_send \/ net_recv \/ CallStep \/ IrqStep

Spec == Init /\ [][Next]_vars

(* The processor goes on with the call in progress and with a handler that *)
(* was entered, and takes an interrupt that is requested; nothing makes    *)
(* packets arrive or programs call.                                        *)
FairSpec == Spec /\ WF_vars(CallStep) /\ WF_vars(IrqStep)

-----------------------------------------------------------------------------
(* Properties.                                                             *)

TypeOK ==
  /\ nic.curr \in Pages /\ nic.bndry \in Pages /\ rx_next \in Pages
  /\ \A p \in Pages : nic.mem[p].next \in Pages \cup {NoPage}
  /\ mail.size \in 0 .. 1 /\ mail.data \in 0 .. ARRIVALS
  /\ DOMAIN arp_table = Entries
  /\ task.i \in 0 .. TRIES /\ task.entry \in Entries \cup {LocalEntry, NoEntry}
  /\ \A c \in Contexts : ctx[c].pc \in {"off", "read", "receive", "process",
                                        "store", "copy", "clear"}

(* The address table (net.c:203-206) stays a map with no holes: broadcast  *)
(* in entry 0, no address twice, free entries after the used ones.         *)
AddressesSound ==
  /\ arp_table[0] = [ip |-> Broadcast, mac |-> Broadcast]
  /\ \A i, j \in Entries :
       /\ (i # j /\ arp_table[i].ip = arp_table[j].ip) => arp_table[i].ip = Nobody
       /\ (i < j /\ arp_table[i].ip = Nobody) => arp_table[j].ip = Nobody

(* net.c:816, "Iterate because more interrupts can be received while       *)
(* handling previous": when the handler is done, no packet is left waiting *)
(* in the ring of the card.                                                *)
NothingStranded ==
  (~nic.rx /\ \A c \in Contexts : ctx[c].pc = "off") => rx_next = nic.curr

(* What net_recv returns is one packet that arrived, its data with the     *)
(* address it came from, and a later one each time.                        *)
Delivery ==
  [][got' # got =>
       /\ got'.data \in got.data + 1 .. Len(log)
       /\ log[got'.data].kind = "udp"
       /\ log[got'.data].from = got'.addr]_vars

(* net.c:604, "Generate UDP packet and send": a net_send that reaches the  *)
(* end has transmitted the data it was given to an address that its        *)
(* destination, or the gateway to it, announced.                           *)
Announced(ip) == {p.mac : p \in {q \in Packets : q.kind = "reply" /\ q.from = ip}}
SentWhole ==
  [][(task.pc = "start" /\ task.ret = "idle" /\ task'.pc = "idle") =>
       /\ wire'.kind = "udp"
       /\ wire'.data = task.msg
       /\ wire'.to \in Announced(get_effective_ip(task.dst))]_vars

(* Every call returns: requests for an address that nobody answers end,    *)
(* and every wait for the card is answered.                                *)
CallsEnd == (task.pc # "idle") ~> (task.pc = "idle")
=============================================================================
