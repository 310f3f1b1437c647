----------------------------- MODULE NetProofs ------------------------------
(***************************************************************************)
(* Proofs about the network stack, for any traffic, ring and tables: the   *)
(* types, the address table, and, when no packet arrives while net_recv    *)
(* reads the status, that the mailbox hands on whole packets in order; and *)
(* that none stays in the ring, when in addition none arrives between the  *)
(* handler's last look at CURR and the clearing of RX; and, when none      *)
(* arrives in any window and the table has an entry for everyone, that a   *)
(* net_send that reports success has transmitted what it was given.        *)
(***************************************************************************)
EXTENDS Net, DataLemmas, FiniteSetTheorems

Arrived == {[kind |-> p.kind, from |-> p.from, mac |-> p.mac, n |-> k] :
              p \in Packets, k \in 1 .. ARRIVALS}
Packed  == [pkt : Arrived \cup {NoPacket}, next : Pages \cup {NoPage}]

HandlerPcs == {"off", "read", "receive", "process", "store", "copy", "clear"}
Handlers   == [pc : HandlerPcs, rx : BOOLEAN, rdc : BOOLEAN, more : BOOLEAN]

CardTyped ==
  /\ nic = [mem |-> nic.mem, curr |-> nic.curr, bndry |-> nic.bndry, rx |-> nic.rx,
            rdc |-> nic.rdc, dma |-> nic.dma, tx |-> nic.tx]
  /\ nic.mem \in [Pages -> Packed]
  /\ nic.curr \in Pages /\ nic.bndry \in Pages
  /\ nic.rx \in BOOLEAN /\ nic.rdc \in BOOLEAN

MailTyped ==
  /\ mail = [size |-> mail.size, addr |-> mail.addr, data |-> mail.data]
  /\ mail.size \in 0 .. 1 /\ mail.data \in 0 .. ARRIVALS

TaskTyped ==
  /\ task = [pc |-> task.pc, dst |-> task.dst, msg |-> task.msg, ip |-> task.ip, i |-> task.i,
             entry |-> task.entry, ret |-> task.ret, addr |-> task.addr, data |-> task.data]
  /\ task.i \in 0 .. TRIES /\ task.entry \in Entries \cup {LocalEntry, NoEntry}

TableTyped == arp_table \in [Entries -> [ip  : {p.from : p \in Packets} \cup {Broadcast, Nobody},
                                         mac : {p.mac : p \in Packets} \cup {Broadcast, Nobody}]]

Types ==
  /\ CardTyped /\ MailTyped /\ TaskTyped /\ TableTyped
  /\ rx_next \in Pages
  /\ tmp_buff \in Arrived \cup {NoPacket}
  /\ log \in Seq(Arrived) /\ Len(log) <= ARRIVALS
  /\ ctx \in [Contexts -> Handlers]

-----------------------------------------------------------------------------
(* The ring: pages from rx_next up to CURR hold the packets that arrived   *)
(* last and were not taken yet, in order.                                  *)

Dist(a, b) == IF b >= a THEN b - a ELSE b - a + PAGES
Onto(a, k) == IF a + k < PAGES THEN a + k ELSE a + k - PAGES

Waiting == Dist(rx_next, nic.curr)
Taken   == Len(log) - Waiting

Holds(k) == nic.mem[Onto(rx_next, k)] = [pkt |-> log[Taken + k + 1], next |-> Onto(rx_next, k + 1)]

Ring ==
  /\ nic.bndry = Before(rx_next)
  /\ Waiting <= PAGES - 2 /\ Taken >= 0
  /\ \A k \in 1 .. Len(log) : log[k].n = k
  /\ \A k \in 0 .. Waiting - 1 : Holds(k)

(* Only the interrupt takes packets: what is pending when net_recv reads   *)
(* the status has interrupted it before.                                   *)
Irq       == ctx["irq"]
Receiving == Irq.pc \in {"process", "store", "copy"}

Handling ==
  /\ ctx["task"].pc \in {"off", "read", "clear"} /\ ~ctx["task"].rx
  /\ Irq.pc = "receive" => Waiting > 0
  /\ Receiving \/ Irq.pc = "receive" => Irq.rx
  /\ Receiving /\ Irq.more => Waiting > 0
  /\ nic.rx /\ (Irq.pc \in {"off", "read"} \/ ~Irq.rx) => Waiting > 0
  /\ Receiving => Taken >= 1 /\ tmp_buff = log[Taken]
  /\ Irq.pc \in {"store", "copy"} => tmp_buff.kind = "udp"

(* The mailbox holds a packet taken and not returned; while it does, the   *)
(* interrupt leaves it alone.                                              *)
Newest == IF Receiving THEN Taken - 1 ELSE Taken

Mailbox ==
  /\ got.data \in 0 .. Newest
  /\ Irq.pc = "store" => mail.size = 0
  /\ Irq.pc = "copy" => mail.size = 1 /\ mail.addr = tmp_buff.from
  /\ mail.size = 1 /\ Irq.pc # "copy" =>
       /\ mail.data \in got.data + 1 .. Newest
       /\ log[mail.data].kind = "udp" /\ log[mail.data].from = mail.addr

Taking ==
  /\ task.ret \in {"idle", "find"}
  /\ task.pc \in {"addr", "data", "release"} => mail.size = 1 /\ Irq.pc \notin {"store", "copy"}
  /\ task.pc \in {"data", "release"} => task.addr = mail.addr
  /\ task.pc = "release" => task.data = mail.data

InOrder == Types /\ Ring /\ Handling /\ Mailbox /\ Taking

(* Without packets in the last window a waiting packet keeps RX set.       *)
Clearing ==
  /\ Waiting > 0 => nic.rx
  /\ Irq.pc = "clear" /\ Irq.rx => Waiting = 0
  /\ Receiving /\ ~Irq.more => Waiting = 0
  /\ Irq.pc = "clear" => ~Irq.more

-----------------------------------------------------------------------------
(* The pages follow each other in a circle.                                *)
LEMMA Circle ==
  ASSUME NEW p \in Pages
  PROVE  /\ After(p) = (IF p + 1 < PAGES THEN p + 1 ELSE 0) /\ After(p) \in Pages
         /\ Before(p) = (IF p = 0 THEN PAGES - 1 ELSE p - 1) /\ Before(p) \in Pages
<1>1. PAGES \in Nat \ {0} /\ PAGES >= 3 /\ p \in Nat /\ p < PAGES
  BY RingAssumption DEF Pages
<1>2. p + 1 < PAGES => (p + 1) % PAGES = p + 1
  BY <1>1, ModOfSmall
<1>3. p + 1 = PAGES => (p + 1) % PAGES = 0
  <2>1. (1 * PAGES) % PAGES = 0
    BY <1>1, MultipleMod
  <2> QED BY <1>1, <2>1
<1>4. p = 0 => (p + PAGES - 1) % PAGES = PAGES - 1
  BY <1>1, ModOfSmall
<1>5. ASSUME p > 0 PROVE (p + PAGES - 1) % PAGES = p - 1
  <2> DEFINE a == p + PAGES - 1
             d == a \div PAGES
  <2>1. a \in Nat /\ d \in Nat /\ a % PAGES \in 0 .. PAGES - 1 /\ a = d * PAGES + (a % PAGES)
    <3>1. a \in Nat
      BY <1>1
    <3> HIDE DEF a
    <3> QED BY <1>1, <3>1, DivMod, ModBound
  <2>2. d # 0
    BY <1>1, <1>5, <2>1
  <2>3. ASSUME d >= 2 PROVE FALSE
    <3>1. (d - 1) * PAGES >= PAGES
      BY <1>1, <2>1, <2>3, ProductGrows
    <3>2. (d - 1) * PAGES = d * PAGES - PAGES
      BY <1>1, <2>1
    <3> QED BY <1>1, <2>1, <3>1, <3>2
  <2>4. d = 1
    BY <2>1, <2>2, <2>3
  <2> QED BY <1>1, <2>1, <2>4
<1> QED BY <1>1, <1>2, <1>3, <1>4, <1>5 DEF After, Before, Pages

-----------------------------------------------------------------------------
LEMMA TypesInit == Init => Types
<1> SUFFICES ASSUME Init PROVE Types
  OBVIOUS
<1>1. CardTyped
  BY RingAssumption DEF Init, CardTyped, Packed, Pages
<1>2. MailTyped /\ TaskTyped
  BY TriesAssumption, RingAssumption DEF Init, MailTyped, TaskTyped, NoCall
<1>3. TableTyped
  BY DEF Init, TableTyped, FreeSlot
<1>4. rx_next \in Pages /\ tmp_buff \in Arrived \cup {NoPacket}
  BY RingAssumption DEF Init, Pages
<1>5. log \in Seq(Arrived) /\ Len(log) <= ARRIVALS
  BY RingAssumption DEF Init
<1>6. ctx \in [Contexts -> Handlers]
  BY DEF Init, Contexts, Handlers, HandlerPcs, NoHandler
<1> QED BY <1>1, <1>2, <1>3, <1>4, <1>5, <1>6 DEF Types

(* Where a handler is told to go is one of its places.                     *)
LEMMA StepTyped ==
  ASSUME ctx \in [Contexts -> Handlers], NEW c \in Contexts,
         NEW from \in HandlerPcs, NEW to \in HandlerPcs, Step(c, from, to)
  PROVE  /\ ctx' \in [Contexts -> Handlers]
         /\ ctx[c].pc = from /\ ctx'[c].pc = to
         /\ ctx'[c].rx = ctx[c].rx /\ ctx'[c].rdc = ctx[c].rdc /\ ctx'[c].more = ctx[c].more
         /\ \A d \in Contexts : d # c => ctx'[d] = ctx[d]
BY DEF Step, Handlers

LEMMA OnwardTyped ==
  ASSUME NEW c PROVE Onward(c) \in HandlerPcs
BY DEF Onward, HandlerPcs

(* What the handler does keeps the types, whoever runs it.                 *)
LEMMA HandlerTypes ==
  ASSUME Types, NEW c \in Contexts, net_handler(c)
  PROVE  Types'
<1> USE DEF Types
<1>1. \A pc \in {"clear", "read", "receive", "process", "store", "copy", "off"} : pc \in HandlerPcs
  BY DEF HandlerPcs
<1>2. Onward(c) \in HandlerPcs
  BY OnwardTyped
<1>3. CASE ReadStatus(c)
  <2>1. UNCHANGED <<nic, rx_next, tmp_buff, mail, arp_table, task, log>>
    BY <1>3 DEF ReadStatus
  <2>2. ctx' \in [Contexts -> Handlers]
    <3>1. \E h \in Handlers : ctx' = [ctx EXCEPT ![c] = h]
      BY <1>3 DEF ReadStatus, Handlers, HandlerPcs, CardTyped
    <3> QED BY <3>1
  <2> QED BY <2>1, <2>2 DEF CardTyped, MailTyped, TaskTyped, TableTyped
<1>4. CASE Receive(c)
  <2> DEFINE page  == nic.mem[rx_next]
             last  == page.next = NoPage
             bndry == IF last THEN nic.bndry ELSE Before(page.next)
             more  == ~last /\ page.next # nic.curr /\ bndry # nic.curr
  <2>1. page \in Packed
    BY DEF CardTyped
  <2>2. page.pkt \in Arrived \cup {NoPacket} /\ (~last => page.next \in Pages)
    BY <2>1 DEF Packed
  <2>3. bndry \in Pages
    BY <2>2, Circle DEF CardTyped
  <2>4. CardTyped'
    <3> HIDE DEF bndry
    <3>1. nic' = [nic EXCEPT !.bndry = bndry, !.dma = "none", !.rdc = FALSE]
      BY <1>4 DEF Receive, bndry
    <3> QED BY <2>3, <3>1 DEF CardTyped
  <2>5. ctx' \in [Contexts -> Handlers]
    <3> HIDE DEF more
    <3>1. ctx' = [ctx EXCEPT ![c].pc = "process", ![c].more = more]
      BY <1>4 DEF Receive, more
    <3>2. more \in BOOLEAN
      BY DEF more
    <3> QED BY <1>1, <3>1, <3>2 DEF Handlers
  <2>6. /\ tmp_buff' \in Arrived \cup {NoPacket} /\ rx_next' \in Pages
        /\ UNCHANGED <<mail, arp_table, task, log>>
    BY <1>4, <2>2 DEF Receive
  <2> QED BY <2>4, <2>5, <2>6 DEF MailTyped, TaskTyped, TableTyped
<1>5. CASE ClearStatus(c)
  <2>1. ctx' \in [Contexts -> Handlers]
    BY <1>1, <1>5, StepTyped DEF ClearStatus
  <2>2. CardTyped'
    <3>1. ctx[c].rx \in BOOLEAN /\ ctx[c].rdc \in BOOLEAN
      BY DEF Handlers
    <3>2. nic' = [nic EXCEPT !.rx = @ /\ ~ctx[c].rx, !.rdc = @ /\ ~ctx[c].rdc]
      BY <1>5 DEF ClearStatus
    <3> QED BY <3>1, <3>2 DEF CardTyped
  <2>3. UNCHANGED <<rx_next, tmp_buff, mail, arp_table, task, log>>
    BY <1>5 DEF ClearStatus
  <2> QED BY <2>1, <2>2, <2>3 DEF MailTyped, TaskTyped, TableTyped
<1>6. CASE AcceptUdp(c)
  <2>1. ctx' \in [Contexts -> Handlers]
    BY <1>1, <1>2, <1>6, StepTyped DEF AcceptUdp
  <2>2. UNCHANGED <<nic, rx_next, tmp_buff, mail, arp_table, task, log>>
    BY <1>6 DEF AcceptUdp
  <2> QED BY <2>1, <2>2 DEF CardTyped, MailTyped, TaskTyped, TableTyped
<1>7. CASE StoreHead(c)
  <2>1. ctx' \in [Contexts -> Handlers]
    BY <1>1, <1>7, StepTyped DEF StoreHead
  <2>2. MailTyped'
    <3>1. PICK size, addr, data : mail = [size |-> size, addr |-> addr, data |-> data]
      BY DEF MailTyped
    <3>2. mail' = [size |-> 1, addr |-> tmp_buff.from, data |-> data] /\ data \in 0 .. ARRIVALS
      BY <1>7, <3>1 DEF StoreHead, MailTyped
    <3> QED BY <3>2 DEF MailTyped
  <2>3. UNCHANGED <<nic, rx_next, tmp_buff, arp_table, task, log>>
    BY <1>7 DEF StoreHead
  <2> QED BY <2>1, <2>2, <2>3 DEF CardTyped, TaskTyped, TableTyped
<1>8. CASE StoreData(c)
  <2>1. ctx' \in [Contexts -> Handlers]
    BY <1>1, <1>2, <1>8, StepTyped DEF StoreData
  <2>2. MailTyped'
    <3>1. mail' = [mail EXCEPT !.data = tmp_buff.n]
      BY <1>8 DEF StoreData
    <3>2. tmp_buff.n \in 0 .. ARRIVALS
      BY RingAssumption DEF Arrived, NoPacket
    <3> QED BY <3>1, <3>2 DEF MailTyped
  <2>3. UNCHANGED <<nic, rx_next, tmp_buff, arp_table, task, log>>
    BY <1>8 DEF StoreData
  <2> QED BY <2>1, <2>2, <2>3 DEF CardTyped, TaskTyped, TableTyped
<1>9. CASE LearnAddress(c)
  <2>1. ctx' \in [Contexts -> Handlers]
    BY <1>1, <1>2, <1>9, StepTyped DEF LearnAddress
  <2>2. TableTyped'
    <3>1. tmp_buff \in Arrived
      BY <1>9 DEF LearnAddress, NoPacket
    <3>2. tmp_buff.from \in {p.from : p \in Packets} /\ tmp_buff.mac \in {p.mac : p \in Packets}
      BY <3>1 DEF Arrived
    <3> DEFINE entry == EntryFor(tmp_buff.from)
    <3> HIDE DEF entry
    <3>3. arp_table' = [arp_table EXCEPT ![entry] = [ip |-> tmp_buff.from, mac |-> tmp_buff.mac]]
      BY <1>9 DEF LearnAddress, entry
    <3> QED BY <3>2, <3>3 DEF TableTyped
  <2>3. UNCHANGED <<nic, rx_next, tmp_buff, mail, task, log>>
    BY <1>9 DEF LearnAddress
  <2> QED BY <2>1, <2>2, <2>3 DEF CardTyped, MailTyped, TaskTyped
<1>10. CASE AnswerRequest(c)
  <2>1. ctx' \in [Contexts -> Handlers]
    BY <1>1, <1>2, <1>10, StepTyped DEF AnswerRequest
  <2>2. CardTyped'
    <3> DEFINE reply == Frame("reply", tmp_buff.mac, Nobody)
    <3> HIDE DEF reply
    <3>1. nic' = [nic EXCEPT !.tx = reply, !.dma = "none", !.rdc = FALSE]
      BY <1>10 DEF AnswerRequest, reply
    <3> QED BY <3>1 DEF CardTyped
  <2>3. UNCHANGED <<rx_next, tmp_buff, mail, arp_table, task, log>>
    BY <1>10 DEF AnswerRequest
  <2> QED BY <2>1, <2>2, <2>3 DEF MailTyped, TaskTyped, TableTyped
<1>11. CASE IgnorePacket(c)
  <2>1. ctx' \in [Contexts -> Handlers]
    BY <1>1, <1>2, <1>11, StepTyped DEF IgnorePacket
  <2>2. UNCHANGED <<nic, rx_next, tmp_buff, mail, arp_table, task, log>>
    BY <1>11 DEF IgnorePacket
  <2> QED BY <2>1, <2>2 DEF CardTyped, MailTyped, TaskTyped, TableTyped
<1> QED BY <1>3, <1>4, <1>5, <1>6, <1>7, <1>8, <1>9, <1>10, <1>11 DEF net_handler

(* The steps of the calls.                                                 *)
LEMMA FoundTyped ==
  ASSUME NEW ip PROVE find_mac_in_table(ip) \in Entries \cup {LocalEntry, NoEntry}
<1> DEFINE found == {i \in Entries : arp_table[i].ip = ip}
<1>1. found # {} => Min(found) \in found
  BY MinIsLeast DEF Entries
<1> HIDE DEF found
<1>2. found \subseteq Entries
  BY DEF found
<1> QED BY <1>1, <1>2 DEF find_mac_in_table, found

LEMMA CallTypes ==
  ASSUME Types, SendStep \/ RecvStep \/ net_send \/ net_recv \/ Interrupt
  PROVE  Types'
<1> USE DEF Types
<1>1. PICK pc, dst, msg, ip, i, entry, ret, addr, data :
        task = [pc |-> pc, dst |-> dst, msg |-> msg, ip |-> ip, i |-> i,
                entry |-> entry, ret |-> ret, addr |-> addr, data |-> data]
  BY DEF TaskTyped
<1>2. i \in 0 .. TRIES /\ entry \in Entries \cup {LocalEntry, NoEntry} /\ TRIES \in Nat
  BY <1>1, TriesAssumption DEF TaskTyped
<1>3. ASSUME UNCHANGED <<rx_next, tmp_buff, ctx, log>>, TaskTyped', UNCHANGED <<nic, mail, arp_table>>
      PROVE  Types'
  BY <1>3 DEF CardTyped, MailTyped, TableTyped
<1>4. CASE AddressFound
  <2> DEFINE e == find_mac_in_table(task.ip)
  <2>1. e \in Entries \cup {LocalEntry, NoEntry}
    BY FoundTyped
  <2> HIDE DEF e
  <2>2. \/ task' = [task EXCEPT !.ip = Gate, !.i = 0, !.entry = e]
        \/ task' = [task EXCEPT !.pc = "fill"]
    BY <1>4 DEF AddressFound, e
  <2>3. TaskTyped'
    <3>1. CASE task' = [task EXCEPT !.ip = Gate, !.i = 0, !.entry = e]
      <4>1. task' = [pc |-> pc, dst |-> dst, msg |-> msg, ip |-> Gate, i |-> 0,
                     entry |-> e, ret |-> ret, addr |-> addr, data |-> data]
        BY <1>1, <3>1
      <4> QED BY <1>2, <2>1, <4>1 DEF TaskTyped
    <3>2. CASE task' = [task EXCEPT !.pc = "fill"]
      BY <1>1, <1>2, <3>2 DEF TaskTyped
    <3> QED BY <2>2, <3>1, <3>2
  <2> QED BY <1>3, <1>4, <2>3 DEF AddressFound, CardKept
<1>5. CASE arp_request
  <2>1. task' = [task EXCEPT !.pc = "load", !.ret = "find", !.i = @ + 1] /\ task.i < TRIES
    BY <1>5 DEF arp_request
  <2>2. TaskTyped'
    <3>1. i + 1 \in 0 .. TRIES
      BY <1>1, <1>2, <2>1
    <3>2. task' = [pc |-> "load", dst |-> dst, msg |-> msg, ip |-> ip, i |-> i + 1,
                   entry |-> entry, ret |-> "find", addr |-> addr, data |-> data]
      BY <1>1, <2>1
    <3> QED BY <1>2, <3>1, <3>2 DEF TaskTyped
  <2> QED BY <1>3, <1>5, <2>2 DEF arp_request, CardKept
<1>6. ASSUME NEW to, task' = [task EXCEPT !.pc = to] PROVE TaskTyped'
  BY <1>1, <1>2, <1>6 DEF TaskTyped
<1>7. CASE GiveUp
  <2>1. TaskTyped'
    BY <1>6, <1>7 DEF GiveUp, Task
  <2> QED BY <1>3, <1>7, <2>1 DEF GiveUp, CardKept
<1>8. CASE udp_send
  <2>1. TaskTyped'
    BY <1>6, <1>8 DEF udp_send, Task
  <2> QED BY <1>3, <1>8, <2>1 DEF udp_send, CardKept
<1>9. CASE ip_send
  <2> DEFINE e == find_mac_in_table(get_effective_ip(task.dst))
             to == IF e = NoEntry THEN "idle" ELSE "eth"
  <2>1. e \in Entries \cup {LocalEntry, NoEntry}
    BY FoundTyped
  <2> HIDE DEF e, to
  <2>2. task' = [task EXCEPT !.pc = to, !.entry = e]
    BY <1>9 DEF ip_send, e, to
  <2>3. TaskTyped'
    BY <1>1, <1>2, <2>1, <2>2 DEF TaskTyped
  <2> QED BY <1>3, <1>9, <2>3 DEF ip_send, CardKept
<1>10. CASE eth_send
  <2>1. task' = [task EXCEPT !.pc = "load", !.ret = "idle"]
    BY <1>10 DEF eth_send
  <2>2. TaskTyped'
    BY <1>1, <1>2, <2>1 DEF TaskTyped
  <2> QED BY <1>3, <1>10, <2>2 DEF eth_send, CardKept
<1>11. CASE StartWrite
  <2>1. TaskTyped' /\ UNCHANGED <<rx_next, tmp_buff, ctx, log, mail, arp_table>>
    BY <1>6, <1>11 DEF StartWrite, Task, CardKept
  <2>2. CardTyped'
    BY <1>11 DEF StartWrite, CardTyped
  <2> QED BY <2>1, <2>2 DEF MailTyped, TableTyped
<1>12. CASE PutBytes
  <2>1. TaskTyped' /\ UNCHANGED <<rx_next, tmp_buff, ctx, log, mail, arp_table>>
    BY <1>6, <1>12 DEF PutBytes, Task, CardKept
  <2>2. \/ nic' = nic
        \/ nic' = [nic EXCEPT !.dma = "none", !.rdc = TRUE, !.tx = snd_buff]
    BY <1>12 DEF PutBytes
  <2>3. CardTyped'
    BY <2>2 DEF CardTyped
  <2> QED BY <2>1, <2>3 DEF MailTyped, TableTyped
<1>13. CASE AwaitWrite
  <2>1. TaskTyped' /\ UNCHANGED <<rx_next, tmp_buff, ctx, log, mail, arp_table>>
    BY <1>6, <1>13 DEF AwaitWrite, Task, CardKept
  <2>2. CardTyped'
    BY <1>13 DEF AwaitWrite, CardTyped
  <2> QED BY <2>1, <2>2 DEF MailTyped, TableTyped
<1>14. CASE Transmit
  <2>1. TaskTyped'
    BY <1>6, <1>14 DEF Transmit, Task
  <2> QED BY <1>3, <1>14, <2>1 DEF Transmit, CardKept
<1>15. CASE LookIntoMailbox
  <2>1. TaskTyped'
    BY <1>6, <1>15 DEF LookIntoMailbox, Task
  <2> QED BY <1>3, <1>15, <2>1 DEF LookIntoMailbox, CardKept
<1>16. CASE CopyAddress
  <2>1. task' = [task EXCEPT !.pc = "data", !.addr = mail.addr]
    BY <1>16 DEF CopyAddress
  <2>2. TaskTyped'
    BY <1>1, <1>2, <2>1 DEF TaskTyped
  <2> QED BY <1>3, <1>16, <2>2 DEF CopyAddress, CardKept
<1>17. CASE CopyData
  <2>1. task' = [task EXCEPT !.pc = "release", !.data = mail.data]
    BY <1>17 DEF CopyData
  <2>2. TaskTyped'
    BY <1>1, <1>2, <2>1 DEF TaskTyped
  <2> QED BY <1>3, <1>17, <2>2 DEF CopyData, CardKept
<1>18. CASE ReleaseMailbox
  <2>1. TaskTyped' /\ UNCHANGED <<rx_next, tmp_buff, ctx, log, nic, arp_table>>
    BY <1>6, <1>18 DEF ReleaseMailbox, Task, CardKept
  <2>2. MailTyped'
    BY <1>18 DEF ReleaseMailbox, MailTyped
  <2> QED BY <2>1, <2>2 DEF CardTyped, TableTyped
<1>19. CASE net_send
  <2>1. PICK d \in Dsts, m \in Msgs :
          task' = [NoCall EXCEPT !.pc = "find", !.dst = d, !.msg = m, !.ip = get_effective_ip(d)]
    BY <1>19 DEF net_send
  <2>2. TaskTyped'
    <3> DEFINE eff == get_effective_ip(d)
    <3> HIDE DEF eff
    <3>1. task' = [pc |-> "find", dst |-> d, msg |-> m, ip |-> eff, i |-> 0,
                   entry |-> NoEntry, ret |-> "idle", addr |-> Nobody, data |-> 0]
      BY <2>1 DEF NoCall, eff
    <3> QED BY <1>2, <3>1 DEF TaskTyped
  <2> QED BY <1>3, <1>19, <2>2 DEF net_send, CardKept
<1>20. CASE net_recv
  <2>1. TaskTyped'
    BY <1>2, <1>20 DEF net_recv, TaskTyped, NoCall
  <2>2. ctx' \in [Contexts -> Handlers]
    BY <1>20 DEF net_recv, Handlers, HandlerPcs
  <2>3. UNCHANGED <<nic, rx_next, tmp_buff, mail, arp_table, log>>
    BY <1>20 DEF net_recv
  <2> QED BY <2>1, <2>2, <2>3 DEF CardTyped, MailTyped, TableTyped
<1>21. CASE Interrupt
  <2>1. ctx' \in [Contexts -> Handlers]
    <3>1. "irq" \in Contexts /\ "off" \in HandlerPcs /\ "read" \in HandlerPcs
      BY DEF Contexts, HandlerPcs
    <3> QED BY <1>21, <3>1, StepTyped DEF Interrupt
  <2>2. UNCHANGED <<nic, rx_next, tmp_buff, mail, arp_table, task, log>>
    BY <1>21 DEF Interrupt
  <2> QED BY <2>1, <2>2 DEF CardTyped, MailTyped, TaskTyped, TableTyped
<1> QED
  BY <1>4, <1>5, <1>7, <1>8, <1>9, <1>10, <1>11, <1>12, <1>13, <1>14, <1>15, <1>16, <1>17,
     <1>18, <1>19, <1>20, <1>21 DEF SendStep, RecvStep

(* The new packet, and the page it is put into.                            *)
LEMMA ArriveTypes ==
  ASSUME Types, Arrive
  PROVE  /\ Types'
         /\ \E pkt \in Arrived :
              /\ pkt.n = Len(log) + 1
              /\ Len(log') = Len(log) + 1
              /\ \A k \in 1 .. Len(log) : log'[k] = log[k]
              /\ log'[Len(log) + 1] = pkt
              /\ nic'.mem[nic.curr] = [pkt |-> pkt, next |-> After(nic.curr)]
         /\ \A p \in Pages : p # nic.curr => nic'.mem[p] = nic.mem[p]
         /\ nic'.curr = After(nic.curr) /\ nic'.bndry = nic.bndry /\ nic'.rx
<1> USE DEF Types
<1>1. PICK p \in Packets :
        LET pkt == [kind |-> p.kind, from |-> p.from, mac |-> p.mac, n |-> Len(log) + 1]
        IN  /\ nic' = [nic EXCEPT !.mem[nic.curr] = [pkt |-> pkt, next |-> After(nic.curr)],
                                  !.curr = After(nic.curr), !.rx = TRUE]
            /\ log' = Append(log, pkt)
  BY DEF Arrive
<1>2. Len(log) < ARRIVALS /\ UNCHANGED <<rx_next, tmp_buff, mail, arp_table, snd_buff, ctx, task>>
  BY DEF Arrive
<1> DEFINE pkt  == [kind |-> p.kind, from |-> p.from, mac |-> p.mac, n |-> Len(log) + 1]
           cell == [pkt |-> pkt, next |-> After(nic.curr)]
<1>3. pkt \in Arrived /\ pkt.n = Len(log) + 1
  BY <1>2, RingAssumption DEF Arrived
<1>4. cell \in Packed /\ After(nic.curr) \in Pages
  BY <1>3, Circle DEF Packed, CardTyped
<1>5. log' = Append(log, pkt)
  BY <1>1
<1>6. nic' = [nic EXCEPT !.mem[nic.curr] = cell, !.curr = After(nic.curr), !.rx = TRUE]
  BY <1>1
<1> HIDE DEF pkt, cell
<1>7. /\ log' \in Seq(Arrived) /\ Len(log') = Len(log) + 1 /\ log'[Len(log) + 1] = pkt
      /\ \A k \in 1 .. Len(log) : log'[k] = log[k]
  BY <1>3, <1>5
<1>8. PICK mem, curr, bndry, rx, rdc, dma, tx :
        nic = [mem |-> mem, curr |-> curr, bndry |-> bndry, rx |-> rx,
               rdc |-> rdc, dma |-> dma, tx |-> tx]
  BY DEF CardTyped
<1>9. nic' = [mem |-> [mem EXCEPT ![curr] = cell], curr |-> After(curr), bndry |-> bndry, rx |-> TRUE,
              rdc |-> rdc, dma |-> dma, tx |-> tx]
  BY <1>6, <1>8
<1>10. mem \in [Pages -> Packed] /\ curr \in Pages /\ bndry \in Pages /\ rdc \in BOOLEAN
  BY <1>8 DEF CardTyped
<1>11. CardTyped'
  <2>1. nic'.mem \in [Pages -> Packed] /\ nic'.curr \in Pages /\ nic'.bndry \in Pages
    BY <1>4, <1>8, <1>9, <1>10
  <2> QED BY <1>9, <1>10, <2>1 DEF CardTyped
<1>12. Types'
  <2>1. Len(log') <= ARRIVALS
    BY <1>2, <1>7, RingAssumption
  <2>2. MailTyped' /\ TaskTyped' /\ TableTyped'
    BY <1>2 DEF MailTyped, TaskTyped, TableTyped
  <2> QED BY <1>2, <1>7, <1>11, <2>1, <2>2
<1>13. /\ nic'.mem[nic.curr] = cell
       /\ \A q \in Pages : q # nic.curr => nic'.mem[q] = nic.mem[q]
       /\ nic'.curr = After(nic.curr) /\ nic'.bndry = nic.bndry /\ nic'.rx
  BY <1>8, <1>9, <1>10
<1> QED BY <1>3, <1>7, <1>12, <1>13 DEF cell

LEMMA TypesStep == Types /\ [Next]_vars => Types'
<1> SUFFICES ASSUME Types, [Next]_vars PROVE Types'
  OBVIOUS
<1>1. CASE Arrive
  BY <1>1, ArriveTypes
<1>2. CASE net_handler("irq") \/ net_handler("task")
  BY <1>2, HandlerTypes DEF Contexts
<1>3. CASE SendStep \/ RecvStep \/ net_send \/ net_recv \/ Interrupt
  BY <1>3, CallTypes
<1>4. CASE UNCHANGED vars
  BY <1>4 DEF vars, Types, CardTyped, MailTyped, TaskTyped, TableTyped
<1> QED BY <1>1, <1>2, <1>3, <1>4 DEF Next, CallStep, IrqStep

(* TypeOK of net.c's state: the registers of the card and rx_next stay in  *)
(* the ring, the mailbox holds at most one packet, net_handler is at one   *)
(* of its places.                                                          *)
THEOREM TypeCorrect == Spec => []TypeOK
<1>1. Types => TypeOK
  <2> SUFFICES ASSUME Types PROVE TypeOK
    OBVIOUS
  <2>1. \A p \in Pages : nic.mem[p].next \in Pages \cup {NoPage}
    BY DEF Types, CardTyped, Packed
  <2>2. \A c \in Contexts : ctx[c].pc \in HandlerPcs
    BY DEF Types, Handlers
  <2> QED BY <2>1, <2>2 DEF TypeOK, Types, CardTyped, MailTyped, TaskTyped, TableTyped, HandlerPcs
<1> QED BY <1>1, TypesInit, TypesStep, PTL DEF Spec

-----------------------------------------------------------------------------
(* Where a reply goes: over the entry of its sender, or over the first     *)
(* free entry, or, in a full table, over the last one.                     *)
LEMMA EntryForReply ==
  ASSUME NEW ip, ip # Nobody
  PROVE  LET e    == EntryFor(ip)
             free == {i \in Entries : arp_table[i].ip = Nobody}
         IN  \/ e = LocalEntry
             \/ e \in Entries /\ arp_table[e].ip = ip
             \/ /\ e \in Entries /\ \A i \in Entries : arp_table[i].ip # ip
                /\ \A i \in free : e <= i
                /\ e \in free \/ (free = {} /\ e = ARP_TABLE_LEN - 1)
<1> DEFINE found == {i \in Entries : arp_table[i].ip = ip}
           free  == {i \in Entries : arp_table[i].ip = Nobody}
           rest  == {ARP_TABLE_LEN - 1} \cup free
<1>1. found # {} => Min(found) \in found
  BY MinIsLeast DEF Entries
<1>2. Min(rest) \in rest /\ \A i \in rest : Min(rest) <= i
  <2>1. rest \in SUBSET Nat /\ rest # {}
    BY TableAssumption DEF Entries
  <2> HIDE DEF rest
  <2> QED BY <2>1, MinIsLeast
<1>3. CASE ip = LocalIP
  BY <1>3 DEF EntryFor, find_mac_in_table, LocalEntry, NoEntry
<1>4. CASE ip # LocalIP /\ found # {}
  <2>1. find_mac_in_table(ip) = Min(found) /\ Min(found) \in found
    BY <1>1, <1>4 DEF find_mac_in_table
  <2>2. Min(found) # NoEntry
    BY <2>1 DEF Entries, NoEntry
  <2> QED BY <2>1, <2>2 DEF EntryFor
<1>5. CASE ip # LocalIP /\ found = {}
  <2>1. EntryFor(ip) = Min(rest)
    BY <1>5 DEF EntryFor, find_mac_in_table
  <2>2. \A i \in free : Min(rest) <= i
    BY <1>2
  <2>3. Min(rest) \in Entries
    BY <1>2, TableAssumption DEF Entries
  <2>4. Min(rest) \in free \/ (free = {} /\ Min(rest) = ARP_TABLE_LEN - 1)
    <3>1. ASSUME NEW i \in free, Min(rest) = ARP_TABLE_LEN - 1 PROVE i = ARP_TABLE_LEN - 1
      BY <2>2, <3>1, TableAssumption DEF Entries
    <3> QED BY <1>2, <3>1
  <2>5. \A i \in Entries : arp_table[i].ip # ip
    BY <1>5
  <2> QED BY <2>1, <2>2, <2>3, <2>4, <2>5
<1> QED BY <1>3, <1>4, <1>5

(* What AddressesSound says, of any table.                                 *)
Sound(t) ==
  /\ t[0] = [ip |-> Broadcast, mac |-> Broadcast]
  /\ \A i, j \in Entries :
       /\ (i # j /\ t[i].ip = t[j].ip) => t[i].ip = Nobody
       /\ (i < j /\ t[i].ip = Nobody) => t[j].ip = Nobody

LEMMA ReplyKeepsTable ==
  ASSUME Types, Sound(arp_table),
         \A p \in Packets : p.kind = "reply" => p.from \notin {Broadcast, Nobody},
         NEW c \in Contexts, LearnAddress(c)
  PROVE  Sound(arp_table')
<1> DEFINE ip    == tmp_buff.from
           e     == EntryFor(ip)
           entry == [ip |-> ip, mac |-> tmp_buff.mac]
<1>1. ip \notin {Broadcast, Nobody}
  <2>1. tmp_buff \in Arrived /\ tmp_buff.kind = "reply"
    BY DEF LearnAddress, NoPacket, Types
  <2> QED BY <2>1 DEF Arrived
<1>2. arp_table' = [arp_table EXCEPT ![e] = entry]
  BY DEF LearnAddress
<1>3. DOMAIN arp_table = Entries /\ arp_table = [i \in Entries |-> arp_table[i]]
  BY DEF Types, TableTyped
<1>4. entry.ip = ip
  OBVIOUS
<1>5. \/ e = LocalEntry
      \/ e \in Entries /\ arp_table[e].ip = ip
      \/ /\ e \in Entries /\ \A i \in Entries : arp_table[i].ip # ip
         /\ \A i \in Entries : arp_table[i].ip = Nobody => e <= i
         /\ \/ arp_table[e].ip = Nobody
            \/ e = ARP_TABLE_LEN - 1 /\ \A i \in Entries : arp_table[i].ip # Nobody
  BY <1>1, EntryForReply
<1> HIDE DEF ip, e, entry
<1>6. \A i \in Entries : arp_table'[i] = IF i = e THEN entry ELSE arp_table[i]
  BY <1>2, <1>3
<1>7. 0 \in Entries /\ arp_table[0].ip = Broadcast /\ Broadcast # Nobody
  BY TableAssumption DEF Entries, Sound, Broadcast, Nobody
<1>8. CASE e = LocalEntry
  <2>1. \A i \in Entries : arp_table'[i] = arp_table[i]
    BY <1>6, <1>8 DEF LocalEntry, Entries
  <2> QED BY <1>7, <2>1 DEF Sound
<1>9. CASE e \in Entries /\ arp_table[e].ip = ip
  <2>1. \A i \in Entries : arp_table'[i].ip = arp_table[i].ip
    BY <1>4, <1>6, <1>9
  <2>2. arp_table'[0] = arp_table[0]
    BY <1>1, <1>6, <1>7, <1>9
  <2> QED BY <2>1, <2>2 DEF Sound
<1>10. CASE /\ e \in Entries /\ \A i \in Entries : arp_table[i].ip # ip
            /\ \A i \in Entries : arp_table[i].ip = Nobody => e <= i
            /\ \/ arp_table[e].ip = Nobody
               \/ e = ARP_TABLE_LEN - 1 /\ \A i \in Entries : arp_table[i].ip # Nobody
  <2>1. e # 0
    BY <1>7, <1>10, TableAssumption
  <2>2. arp_table'[0] = arp_table[0]
    BY <1>6, <1>7, <2>1
  <2>3. \A i \in Entries : arp_table'[i].ip = IF i = e THEN ip ELSE arp_table[i].ip
    BY <1>4, <1>6
  <2>4. ASSUME NEW i \in Entries, NEW j \in Entries, i # j, arp_table'[i].ip = arp_table'[j].ip
        PROVE  arp_table'[i].ip = Nobody
    BY <1>10, <2>3, <2>4 DEF Sound
  <2>5. ASSUME NEW i \in Entries, NEW j \in Entries, i < j, arp_table'[i].ip = Nobody
        PROVE  arp_table'[j].ip = Nobody
    <3>1. i # e /\ arp_table[i].ip = Nobody
      BY <1>1, <2>3, <2>5
    <3>2. e <= i
      BY <1>10, <3>1
    <3>3. j # e /\ arp_table[j].ip = Nobody
      BY <1>10, <2>5, <3>1, <3>2 DEF Sound, Entries
    <3> QED BY <2>3, <3>3
  <2> QED BY <2>2, <2>4, <2>5 DEF Sound
<1> QED BY <1>5, <1>8, <1>9, <1>10

LEMMA TableStep ==
  ASSUME Types, Sound(arp_table), [Next]_vars,
         \A p \in Packets : p.kind = "reply" => p.from \notin {Broadcast, Nobody}
  PROVE  Sound(arp_table')
<1>1. ASSUME UNCHANGED arp_table PROVE Sound(arp_table')
  BY <1>1
<1>2. ASSUME NEW c \in Contexts, net_handler(c) PROVE Sound(arp_table')
  <2>1. LearnAddress(c) \/ UNCHANGED arp_table
    BY <1>2 DEF net_handler, ReadStatus, Receive, ClearStatus, AcceptUdp, StoreHead, StoreData,
                AnswerRequest, IgnorePacket
  <2> QED BY <1>1, <2>1, ReplyKeepsTable
<1>3. CASE Arrive \/ net_send \/ net_recv \/ Interrupt \/ UNCHANGED vars
  BY <1>1, <1>3 DEF Arrive, net_send, net_recv, Interrupt, vars
<1>4. CASE SendStep
  BY <1>1, <1>4 DEF SendStep, AddressFound, arp_request, GiveUp, udp_send, ip_send, eth_send,
                    StartWrite, PutBytes, AwaitWrite, Transmit
<1>5. CASE RecvStep
  BY <1>1, <1>5 DEF RecvStep, LookIntoMailbox, CopyAddress, CopyData, ReleaseMailbox
<1> QED BY <1>2, <1>3, <1>4, <1>5 DEF Next, CallStep, IrqStep, Contexts

(* net.c:203-206: the table of hardware addresses stays a map without      *)
(* holes, broadcast in entry 0, whatever replies arrive, in whatever       *)
(* order, when none claims to come from nobody or from everybody.          *)
THEOREM AddressesSoundAlways ==
  ASSUME \A p \in Packets : p.kind = "reply" => p.from \notin {Broadcast, Nobody}
  PROVE  Spec => []AddressesSound
<1>1. Init => Sound(arp_table)
  BY TableAssumption DEF Init, Sound, Entries, FreeSlot, Broadcast, Nobody
<1>2. Types /\ Sound(arp_table) /\ [Next]_vars => Sound(arp_table)'
  BY TableStep
<1>3. Sound(arp_table) => AddressesSound
  BY DEF Sound, AddressesSound
<1> QED BY <1>1, <1>2, <1>3, TypesInit, TypesStep, PTL DEF Spec

-----------------------------------------------------------------------------
(* Distances in the ring.                                                  *)
LEMMA Distances ==
  ASSUME NEW a \in Pages, NEW b \in Pages
  PROVE  /\ Dist(a, b) \in 0 .. PAGES - 1 /\ (Dist(a, b) = 0 <=> a = b)
         /\ a # b => Dist(After(a), b) = Dist(a, b) - 1
         /\ b # Before(a) => Dist(a, After(b)) = Dist(a, b) + 1
         /\ Dist(a, b) = PAGES - 1 <=> b = Before(a)
         /\ Dist(a, b) <= PAGES - 2 /\ After(b) # Before(a) => Dist(a, b) <= PAGES - 3
         /\ Before(After(a)) = a
BY Circle, RingAssumption DEF Dist, Pages

LEMMA Places ==
  ASSUME NEW a \in Pages, NEW k \in 0 .. PAGES - 2
  PROVE  /\ Onto(a, 0) = a /\ Onto(a, k) \in Pages
         /\ Onto(a, k + 1) = After(Onto(a, k))
         /\ Onto(After(a), k) = Onto(a, k + 1)
         /\ \A b \in Pages : /\ k < Dist(a, b) => Onto(a, k) # b
                             /\ k = Dist(a, b) => Onto(a, k) = b
<1>1. Onto(a, 0) = a /\ Onto(a, k) \in Pages
  BY RingAssumption DEF Onto, Pages
<1>2. Onto(a, k + 1) = After(Onto(a, k))
  BY <1>1, Circle, RingAssumption DEF Onto, Pages
<1>3. Onto(After(a), k) = Onto(a, k + 1)
  BY Circle, RingAssumption DEF Onto, Pages
<1>4. ASSUME NEW b \in Pages
      PROVE  (k < Dist(a, b) => Onto(a, k) # b) /\ (k = Dist(a, b) => Onto(a, k) = b)
  BY RingAssumption DEF Onto, Dist, Pages
<1> QED BY <1>1, <1>2, <1>3, <1>4

(* What keeps the ring.                                                    *)
RingKept == /\ nic'.mem = nic.mem /\ nic'.curr = nic.curr /\ nic'.bndry = nic.bndry
            /\ UNCHANGED <<rx_next, log>>

LEMMA KeptRing ==
  ASSUME Ring, RingKept
  PROVE  Ring' /\ Waiting' = Waiting /\ Taken' = Taken
<1>1. Waiting' = Waiting /\ Taken' = Taken
  BY DEF RingKept, Waiting, Taken
<1>2. \A k \in 0 .. Waiting - 1 : Holds(k)'
  BY <1>1 DEF Ring, RingKept, Holds
<1> QED BY <1>1, <1>2 DEF Ring, RingKept

LEMMA WaitingTyped ==
  ASSUME Types PROVE Waiting \in 0 .. PAGES - 1 /\ Taken \in Int /\ Len(log) \in Nat /\ Taken <= Len(log)
<1>1. Waiting \in 0 .. PAGES - 1
  BY Distances DEF Types, CardTyped, Waiting
<1> QED BY <1>1, RingAssumption DEF Types, Taken

(* A packet that arrives goes behind the last one.                         *)
LEMMA ArriveRing ==
  ASSUME Types, Ring, Arrive
  PROVE  /\ Ring' /\ Waiting' = Waiting + 1 /\ Taken' = Taken
         /\ Waiting \in Nat /\ Taken \in Nat
         /\ \A k \in 1 .. Taken : log'[k] = log[k]
<1>1. PICK pkt \in Arrived :
        /\ pkt.n = Len(log) + 1
        /\ Len(log') = Len(log) + 1
        /\ \A k \in 1 .. Len(log) : log'[k] = log[k]
        /\ log'[Len(log) + 1] = pkt
        /\ nic'.mem[nic.curr] = [pkt |-> pkt, next |-> After(nic.curr)]
  BY ArriveTypes
<1>2. /\ \A p \in Pages : p # nic.curr => nic'.mem[p] = nic.mem[p]
      /\ nic'.curr = After(nic.curr) /\ nic'.bndry = nic.bndry
  BY ArriveTypes
<1>3. rx_next' = rx_next /\ After(nic.curr) # nic.bndry /\ rx_next \in Pages /\ nic.curr \in Pages
  BY DEF Arrive, Types, CardTyped
<1>4. Waiting \in 0 .. PAGES - 2 /\ Taken \in Nat /\ Len(log) \in Nat /\ Taken <= Len(log)
  BY WaitingTyped DEF Ring
<1>5. Waiting' = Waiting + 1 /\ Waiting <= PAGES - 3
  <2>1. nic.bndry = Before(rx_next)
    BY DEF Ring
  <2>2. nic.curr # Before(rx_next) /\ Waiting <= PAGES - 3
    BY <1>3, <1>4, <2>1, Distances, RingAssumption DEF Waiting
  <2>3. Dist(rx_next, After(nic.curr)) = Dist(rx_next, nic.curr) + 1
    BY <1>3, <2>2, Distances
  <2> QED BY <1>2, <1>3, <2>2, <2>3 DEF Waiting
<1>6. Taken' = Taken /\ Taken + Waiting = Len(log)
  BY <1>1, <1>4, <1>5 DEF Taken
<1>7. ASSUME NEW k \in 0 .. Waiting' - 1 PROVE Holds(k)'
  <2>1. k \in 0 .. PAGES - 2 /\ k + 1 \in 0 .. PAGES - 2
    BY <1>4, <1>5, <1>7, RingAssumption
  <2>2. Onto(rx_next, k) \in Pages /\ Onto(rx_next, k + 1) = After(Onto(rx_next, k))
    BY <1>3, <2>1, Places
  <2>3. CASE k < Waiting
    <3>1. Onto(rx_next, k) # nic.curr
      BY <1>3, <2>1, <2>3, Places DEF Waiting
    <3>2. Holds(k)
      BY <1>4, <1>7, <2>3 DEF Ring
    <3>3. log'[Taken + k + 1] = log[Taken + k + 1]
      BY <1>1, <1>4, <1>6, <1>7, <2>3
    <3>4. nic'.mem[Onto(rx_next, k)] = nic.mem[Onto(rx_next, k)]
      BY <1>2, <2>2, <3>1
    <3> QED BY <1>3, <1>6, <3>2, <3>3, <3>4 DEF Holds
  <2>4. CASE k = Waiting
    <3>1. Onto(rx_next, k) = nic.curr
      BY <1>3, <2>1, <2>4, Places DEF Waiting
    <3>2. log'[Taken + k + 1] = pkt
      BY <1>1, <1>6, <2>4
    <3> QED BY <1>1, <1>3, <1>6, <2>2, <3>1, <3>2 DEF Holds
  <2> QED BY <1>4, <1>5, <1>7, <2>3, <2>4
<1>8. \A k \in 1 .. Len(log') : log'[k].n = k
  BY <1>1, <1>4 DEF Ring
<1>9. Waiting' <= PAGES - 2 /\ Taken' >= 0 /\ nic'.bndry = Before(rx_next')
  BY <1>2, <1>3, <1>4, <1>5, <1>6, RingAssumption DEF Ring
<1>10. \A k \in 1 .. Taken : log'[k] = log[k]
  BY <1>1, <1>4
<1> QED BY <1>4, <1>5, <1>6, <1>7, <1>8, <1>9, <1>10, SMTT(30) DEF Ring

(* ne2k_receive takes the packet that has waited longest, and knows        *)
(* whether another waits.                                                  *)
LEMMA ReceiveRing ==
  ASSUME Types, Ring, NEW c \in Contexts, Receive(c), Waiting > 0
  PROVE  /\ Ring' /\ Waiting' = Waiting - 1 /\ Taken' = Taken + 1 /\ Taken \in Nat
         /\ tmp_buff' = log[Taken + 1]
         /\ ctx'[c].pc = "process" /\ ctx'[c].rx = ctx[c].rx
         /\ ctx'[c].more <=> Waiting' > 0
         /\ \A d \in Contexts : d # c => ctx'[d] = ctx[d]
         /\ nic'.rx = nic.rx
<1>1. /\ Waiting \in 1 .. PAGES - 2 /\ Taken \in Nat /\ Len(log) \in Nat
      /\ rx_next \in Pages /\ nic.curr \in Pages
  BY WaitingTyped DEF Ring, Types, CardTyped
<1>2. 0 \in 0 .. PAGES - 2 /\ Onto(rx_next, 0) = rx_next /\ Onto(rx_next, 0 + 1) = After(rx_next)
  <2>1. 0 \in 0 .. PAGES - 2
    BY RingAssumption
  <2> QED BY <1>1, <2>1, Places
<1>3. nic.mem[rx_next] = [pkt |-> log[Taken + 1], next |-> After(rx_next)]
  <2>1. Holds(0)
    BY <1>1 DEF Ring
  <2> QED BY <1>1, <1>2, <2>1 DEF Holds
<1>4. After(rx_next) \in Pages /\ After(rx_next) # NoPage /\ Before(After(rx_next)) = rx_next
  BY <1>1, Circle, Distances DEF Pages, NoPage
<1>5. rx_next # nic.curr
  BY <1>1, Distances DEF Waiting
<1> DEFINE more == After(rx_next) # nic.curr
<1>6. /\ tmp_buff' = log[Taken + 1] /\ rx_next' = After(rx_next)
      /\ ctx' = [ctx EXCEPT ![c].pc = "process", ![c].more = more]
      /\ nic' = [nic EXCEPT !.bndry = rx_next, !.dma = "none", !.rdc = FALSE]
      /\ log' = log
  <2> DEFINE page == nic.mem[rx_next]
             next == After(rx_next)
             from == log[Taken + 1]
  <2> HIDE DEF next, from
  <2>1. page.pkt = from /\ page.next = next /\ next # NoPage /\ Before(next) = rx_next
    BY <1>3, <1>4 DEF next, from
  <2> HIDE DEF page
  <2>2. (page.next # nic.curr /\ rx_next # nic.curr) = more
    BY <1>5, <2>1 DEF next
  <2> HIDE DEF more
  <2>3. /\ tmp_buff' = page.pkt /\ rx_next' = page.next
        /\ nic' = [nic EXCEPT !.bndry = rx_next, !.dma = "none", !.rdc = FALSE]
        /\ log' = log
    BY <2>1 DEF Receive, page
  <2>4. ctx' = [ctx EXCEPT ![c].pc = "process", ![c].more = more]
    BY <2>1, <2>2 DEF Receive, page
  <2> QED BY <2>1, <2>3, <2>4 DEF next, from
<1> HIDE DEF more
<1>7. /\ ctx'[c].pc = "process" /\ ctx'[c].rx = ctx[c].rx /\ ctx'[c].more = more
      /\ \A d \in Contexts : d # c => ctx'[d] = ctx[d]
  BY <1>6 DEF Types, Handlers
<1>8. nic'.mem = nic.mem /\ nic'.curr = nic.curr /\ nic'.bndry = rx_next /\ nic'.rx = nic.rx
  BY <1>6 DEF Types, CardTyped
<1>9. Waiting' = Waiting - 1
  <2>1. Dist(After(rx_next), nic.curr) = Dist(rx_next, nic.curr) - 1
    BY <1>1, <1>5, Distances
  <2> QED BY <1>6, <1>8, <2>1 DEF Waiting
<1>10. Taken' = Taken + 1
  BY <1>1, <1>6, <1>9 DEF Taken
<1>11. more <=> Waiting' > 0
  <2>1. Waiting' = 0 <=> After(rx_next) = nic.curr
    BY <1>1, <1>4, <1>6, <1>8, Distances DEF Waiting
  <2> QED BY <1>1, <1>9, <2>1 DEF more
<1>12. ASSUME NEW k \in 0 .. Waiting' - 1 PROVE Holds(k)'
  <2>1. k \in 0 .. PAGES - 2 /\ k + 1 \in 0 .. PAGES - 2 /\ k + 1 \in 0 .. Waiting - 1
    BY <1>1, <1>9, <1>12, RingAssumption
  <2>2. Onto(After(rx_next), k) = Onto(rx_next, k + 1)
    BY <1>1, <2>1, Places
  <2>3. Onto(After(rx_next), k + 1) = Onto(rx_next, k + 2)
    <3>1. Onto(After(rx_next), k + 1) = Onto(rx_next, (k + 1) + 1)
      BY <1>1, <2>1, Places
    <3>2. (k + 1) + 1 = k + 2
      BY <2>1
    <3> QED BY <3>1, <3>2
  <2>4. Holds(k + 1)
    BY <2>1 DEF Ring
  <2>5. (k + 1) + 1 = k + 2 /\ Taken + (k + 1) + 1 = Taken + 1 + k + 1
    BY <1>1, <2>1
  <2> QED BY <1>6, <1>8, <1>10, <2>2, <2>3, <2>4, <2>5 DEF Holds
<1>13. /\ Waiting' <= PAGES - 2 /\ Taken' >= 0 /\ nic'.bndry = Before(rx_next')
       /\ \A k \in 1 .. Len(log') : log'[k].n = k
  BY <1>1, <1>4, <1>6, <1>8, <1>9, <1>10, RingAssumption DEF Ring
<1> QED BY <1>1, <1>6, <1>7, <1>8, <1>9, <1>10, <1>11, <1>12, <1>13 DEF Ring

-----------------------------------------------------------------------------
(* The handler of the interrupt keeps what it and net_recv agree on.       *)
Agreed == Handling /\ Mailbox /\ Taking

(* It leaves a packet for the next, or for the clearing of the bits.       *)
LEMMA LeavePacket ==
  ASSUME InOrder, RingKept, nic'.rx = nic.rx, UNCHANGED <<tmp_buff, mail, task, got>>,
         Step("irq", "process", Onward("irq"))
  PROVE  Agreed'
<1>1. /\ Types /\ Ring /\ Handling /\ Mailbox /\ Taking
      /\ Waiting \in Nat /\ Taken \in Nat
  BY WaitingTyped DEF InOrder, Ring
<1>2. /\ Irq.pc = "process" /\ Irq'.pc = Onward("irq") /\ Irq'.rx = Irq.rx /\ Irq'.more = Irq.more
      /\ ctx'["task"] = ctx["task"]
  <2>1. "irq" \in Contexts /\ "task" \in Contexts /\ "process" \in HandlerPcs
    BY DEF Contexts, HandlerPcs
  <2> QED BY <1>1, <2>1, OnwardTyped, StepTyped DEF Types, Irq
<1>3. Waiting' = Waiting /\ Taken' = Taken /\ log' = log
  BY <1>1, KeptRing DEF RingKept
<1>4. Onward("irq") = IF Irq.more THEN "receive" ELSE "clear"
  BY DEF Onward, Irq
<1>5. Handling'
  BY <1>1, <1>2, <1>3, <1>4 DEF Handling, Receiving
<1>6. Newest = Taken - 1 /\ Newest' = Taken
  BY <1>2, <1>3, <1>4 DEF Newest, Receiving
<1>7. Mailbox'
  BY <1>1, <1>2, <1>3, <1>4, <1>6 DEF Mailbox
<1>8. Taking'
  BY <1>1, <1>2, <1>4 DEF Taking
<1> QED BY <1>5, <1>7, <1>8 DEF Agreed

LEMMA IrqReadsStatus ==
  ASSUME InOrder, ReadStatus("irq")
  PROVE  Agreed' /\ RingKept /\ (Irq'.pc = "clear" => ~Irq'.rx /\ ~Irq'.more) /\ ~Receiving'
<1>1. /\ Types /\ Ring /\ Handling /\ Mailbox /\ Taking
      /\ Waiting \in Nat /\ Taken \in Nat
  BY WaitingTyped DEF InOrder, Ring
<1>2. nic.bndry # nic.curr
  <2>1. rx_next \in Pages /\ nic.curr \in Pages
    BY <1>1 DEF Types, CardTyped
  <2>2. nic.curr = Before(rx_next) => Waiting = PAGES - 1
    BY <2>1, Distances DEF Waiting
  <2>3. Waiting <= PAGES - 2 /\ nic.bndry = Before(rx_next)
    BY <1>1 DEF Ring
  <2> QED BY <1>1, <2>2, <2>3, RingAssumption
<1>3. /\ Irq.pc = "read"
      /\ Irq'.pc = (CASE ~nic.rx /\ ~nic.rdc -> "off" [] nic.rx -> "receive" [] OTHER -> "clear")
      /\ Irq'.rx = nic.rx /\ Irq'.more = FALSE
      /\ ctx'["task"] = ctx["task"]
      /\ UNCHANGED <<nic, rx_next, tmp_buff, mail, task, got, log>>
  BY <1>1, <1>2 DEF ReadStatus, Irq, Types, Contexts
<1>4. nic.rx \in BOOLEAN /\ nic.rdc \in BOOLEAN
  BY <1>1 DEF Types, CardTyped
<1>5. RingKept
  BY <1>3 DEF RingKept
<1>6. Waiting' = Waiting /\ Taken' = Taken
  BY <1>1, <1>5, KeptRing
<1>7. nic.rx => Waiting > 0
  BY <1>1, <1>3 DEF Handling
<1>8. /\ Irq'.pc \in {"off", "receive", "clear"}
      /\ (Irq'.pc = "receive" <=> nic.rx) /\ (Irq'.pc = "off" => ~nic.rx)
  BY <1>3, <1>4
<1>9. ~Receiving /\ ~Receiving'
  BY <1>3, <1>8 DEF Receiving
<1>10. Handling'
  BY <1>1, <1>3, <1>6, <1>7, <1>8, <1>9 DEF Handling
<1>11. Mailbox'
  BY <1>1, <1>3, <1>6, <1>8, <1>9 DEF Mailbox, Newest
<1>12. Taking'
  BY <1>1, <1>3, <1>8 DEF Taking
<1>13. Irq'.pc = "clear" => ~Irq'.rx /\ ~Irq'.more
  BY <1>3, <1>4, <1>8
<1> QED BY <1>5, <1>9, <1>10, <1>11, <1>12, <1>13 DEF Agreed

LEMMA IrqReceives ==
  ASSUME InOrder, Receive("irq")
  PROVE  Agreed' /\ Ring' /\ Irq'.pc = "process" /\ (~Irq'.more => Waiting' = 0) /\ nic'.rx = nic.rx
         /\ Waiting > 0
<1>1. /\ Types /\ Ring /\ Handling /\ Mailbox /\ Taking
      /\ Waiting \in Nat /\ Taken \in Nat
  BY WaitingTyped DEF InOrder, Ring
<1>2. Irq.pc = "receive" /\ Waiting > 0 /\ Irq.rx
  BY <1>1 DEF Receive, Irq, Handling
<1>3. "irq" \in Contexts /\ "task" \in Contexts
  BY DEF Contexts
<1>4. /\ Ring' /\ Waiting' = Waiting - 1 /\ Taken' = Taken + 1
      /\ tmp_buff' = log[Taken + 1]
      /\ Irq'.pc = "process" /\ Irq'.rx = Irq.rx
      /\ Irq'.more <=> Waiting' > 0
      /\ ctx'["task"] = ctx["task"]
      /\ nic'.rx = nic.rx
  BY <1>1, <1>2, <1>3, ReceiveRing DEF Irq
<1>5. UNCHANGED <<mail, task, got, log>>
  BY DEF Receive
<1>6. ~Receiving /\ Receiving' /\ Newest' = Newest
  BY <1>1, <1>2, <1>4 DEF Receiving, Newest
<1>7. Handling'
  BY <1>1, <1>2, <1>4, <1>5, <1>6 DEF Handling
<1>8. Mailbox'
  BY <1>1, <1>2, <1>4, <1>5, <1>6 DEF Mailbox
<1>9. Taking'
  BY <1>1, <1>4, <1>5 DEF Taking
<1> QED BY <1>1, <1>2, <1>4, <1>7, <1>8, <1>9 DEF Agreed

LEMMA IrqAccepts ==
  ASSUME InOrder, AcceptUdp("irq")
  PROVE  Agreed' /\ RingKept /\ Irq.pc = "process" /\ Irq'.more = Irq.more /\ Irq'.rx = Irq.rx
         /\ Irq'.pc \in {"receive", "clear", "store"}
<1>1. /\ Types /\ Ring /\ Handling /\ Mailbox /\ Taking
      /\ Waiting \in Nat /\ Taken \in Nat
  BY WaitingTyped DEF InOrder, Ring
<1>2. UNCHANGED <<nic, rx_next, tmp_buff, mail, task, got, log>> /\ RingKept /\ nic'.rx = nic.rx
  BY DEF AcceptUdp, RingKept
<1>3. "irq" \in Contexts /\ "task" \in Contexts /\ "process" \in HandlerPcs /\ "store" \in HandlerPcs
  BY DEF Contexts, HandlerPcs
<1>4. mail.size = 0 \/ mail.size > 0
  BY <1>1 DEF Types, MailTyped
<1>5. CASE mail.size > 0
  <2>1. Step("irq", "process", Onward("irq"))
    BY <1>5 DEF AcceptUdp
  <2>2. Agreed'
    BY <1>2, <2>1, LeavePacket
  <2>3. Irq.pc = "process" /\ Irq'.pc = Onward("irq") /\ Irq'.more = Irq.more /\ Irq'.rx = Irq.rx
    BY <1>1, <1>3, <2>1, OnwardTyped, StepTyped DEF Types, Irq
  <2> QED BY <1>2, <2>2, <2>3 DEF Onward
<1>6. CASE mail.size = 0
  <2>1. Step("irq", "process", "store") /\ tmp_buff.kind = "udp"
    BY <1>6 DEF AcceptUdp
  <2>2. /\ Irq.pc = "process" /\ Irq'.pc = "store" /\ Irq'.rx = Irq.rx /\ Irq'.more = Irq.more
        /\ ctx'["task"] = ctx["task"]
    BY <1>1, <1>3, <2>1, StepTyped DEF Types, Irq
  <2>3. Waiting' = Waiting /\ Taken' = Taken
    BY <1>1, <1>2, KeptRing
  <2>4. Receiving /\ Receiving' /\ Newest' = Newest
    BY <2>2, <2>3 DEF Receiving, Newest
  <2>5. Handling'
    BY <1>1, <1>2, <2>1, <2>2, <2>3, <2>4 DEF Handling
  <2>6. Mailbox'
    BY <1>1, <1>2, <1>6, <2>2, <2>4 DEF Mailbox
  <2>7. Taking'
    BY <1>1, <1>2, <1>6, <2>2 DEF Taking
  <2> QED BY <1>2, <2>2, <2>5, <2>6, <2>7 DEF Agreed
<1> QED BY <1>4, <1>5, <1>6

LEMMA IrqStoresHead ==
  ASSUME InOrder, StoreHead("irq")
  PROVE  Agreed' /\ RingKept /\ Irq.pc = "store" /\ Irq'.pc = "copy"
         /\ Irq'.more = Irq.more /\ Irq'.rx = Irq.rx
<1>1. /\ Types /\ Ring /\ Handling /\ Mailbox /\ Taking
      /\ Waiting \in Nat /\ Taken \in Nat
  BY WaitingTyped DEF InOrder, Ring
<1>2. UNCHANGED <<nic, rx_next, tmp_buff, task, got, log>> /\ RingKept
  BY DEF StoreHead, RingKept
<1>3. /\ Irq.pc = "store" /\ Irq'.pc = "copy" /\ Irq'.rx = Irq.rx /\ Irq'.more = Irq.more
      /\ ctx'["task"] = ctx["task"]
  <2>1. "irq" \in Contexts /\ "task" \in Contexts /\ "store" \in HandlerPcs /\ "copy" \in HandlerPcs
    BY DEF Contexts, HandlerPcs
  <2>2. Step("irq", "store", "copy")
    BY DEF StoreHead
  <2> QED BY <1>1, <2>1, <2>2, StepTyped DEF Types, Irq
<1>4. mail'.size = 1 /\ mail'.addr = tmp_buff.from
  <2>1. PICK size, addr, data : mail = [size |-> size, addr |-> addr, data |-> data]
    BY <1>1 DEF Types, MailTyped
  <2>2. mail' = [size |-> 1, addr |-> tmp_buff.from, data |-> data]
    BY <2>1 DEF StoreHead
  <2> QED BY <2>2
<1>5. Waiting' = Waiting /\ Taken' = Taken
  BY <1>1, <1>2, KeptRing
<1>6. Receiving /\ Receiving' /\ Newest' = Newest
  BY <1>3, <1>5 DEF Receiving, Newest
<1>7. Handling'
  BY <1>1, <1>2, <1>3, <1>5, <1>6 DEF Handling
<1>8. Mailbox'
  BY <1>1, <1>2, <1>3, <1>4, <1>6 DEF Mailbox
<1>9. Taking'
  BY <1>1, <1>2, <1>3 DEF Taking
<1> QED BY <1>2, <1>3, <1>7, <1>8, <1>9 DEF Agreed

LEMMA IrqStoresData ==
  ASSUME InOrder, StoreData("irq")
  PROVE  Agreed' /\ RingKept /\ Irq.pc = "copy" /\ Irq'.pc = Onward("irq")
         /\ Irq'.more = Irq.more /\ Irq'.rx = Irq.rx
<1>1. /\ Types /\ Ring /\ Handling /\ Mailbox /\ Taking
      /\ Waiting \in Nat /\ Taken \in Nat
  BY WaitingTyped DEF InOrder, Ring
<1>2. UNCHANGED <<nic, rx_next, tmp_buff, task, got, log>> /\ RingKept
  BY DEF StoreData, RingKept
<1>3. /\ Irq.pc = "copy" /\ Irq'.pc = Onward("irq") /\ Irq'.rx = Irq.rx /\ Irq'.more = Irq.more
      /\ ctx'["task"] = ctx["task"]
  <2>1. "irq" \in Contexts /\ "task" \in Contexts /\ "copy" \in HandlerPcs
    BY DEF Contexts, HandlerPcs
  <2>2. Step("irq", "copy", Onward("irq"))
    BY DEF StoreData
  <2> QED BY <1>1, <2>1, <2>2, OnwardTyped, StepTyped DEF Types, Irq
<1>4. mail'.size = mail.size /\ mail'.addr = mail.addr /\ mail'.data = tmp_buff.n
  <2>1. PICK size, addr, data : mail = [size |-> size, addr |-> addr, data |-> data]
    BY <1>1 DEF Types, MailTyped
  <2>2. mail' = [size |-> size, addr |-> addr, data |-> tmp_buff.n]
    BY <2>1 DEF StoreData
  <2> QED BY <2>1, <2>2
<1>5. Waiting' = Waiting /\ Taken' = Taken
  BY <1>1, <1>2, KeptRing
<1>6. Onward("irq") = IF Irq.more THEN "receive" ELSE "clear"
  BY DEF Onward, Irq
<1>7. Receiving /\ ~Receiving' /\ Newest' = Taken /\ Newest = Taken - 1
  BY <1>3, <1>5, <1>6 DEF Receiving, Newest
<1>8. Handling'
  BY <1>1, <1>2, <1>3, <1>5, <1>6, <1>7 DEF Handling
<1>9. tmp_buff = log[Taken] /\ Taken \in 1 .. Len(log) /\ tmp_buff.n = Taken /\ tmp_buff.kind = "udp"
  <2>1. Taken >= 1 /\ tmp_buff = log[Taken] /\ tmp_buff.kind = "udp"
    BY <1>1, <1>3, <1>7 DEF Handling
  <2>2. Taken <= Len(log) /\ Len(log) \in Nat
    BY <1>1, WaitingTyped
  <2> QED BY <1>1, <2>1, <2>2 DEF Ring
<1>10. Mailbox'
  <2>1. got.data \in 0 .. Taken - 1 /\ mail.size = 1 /\ mail.addr = tmp_buff.from
    BY <1>1, <1>3, <1>7 DEF Mailbox
  <2>2. mail'.data = Taken /\ Taken \in got.data + 1 .. Taken /\ got.data \in 0 .. Taken
    BY <1>1, <1>4, <1>9, <2>1
  <2>3. log'[mail'.data].kind = "udp" /\ log'[mail'.data].from = mail'.addr
    BY <1>2, <1>4, <1>9, <2>1, <2>2
  <2> QED BY <1>2, <1>3, <1>6, <1>7, <2>2, <2>3 DEF Mailbox
<1>11. Taking'
  BY <1>1, <1>2, <1>3 DEF Taking
<1> QED BY <1>2, <1>3, <1>8, <1>10, <1>11 DEF Agreed

LEMMA IrqClears ==
  ASSUME InOrder, ClearStatus("irq")
  PROVE  Agreed' /\ RingKept /\ Irq.pc = "clear" /\ Irq'.pc = "read"
         /\ (nic'.rx <=> nic.rx /\ ~Irq.rx)
<1>1. /\ Types /\ Ring /\ Handling /\ Mailbox /\ Taking
      /\ Waiting \in Nat /\ Taken \in Nat
  BY WaitingTyped DEF InOrder, Ring
<1>2. /\ nic'.rx = (nic.rx /\ ~Irq.rx) /\ UNCHANGED <<rx_next, tmp_buff, mail, task, got, log>>
      /\ RingKept
  BY <1>1 DEF ClearStatus, RingKept, Irq, Types, CardTyped
<1>3. /\ Irq.pc = "clear" /\ Irq'.pc = "read" /\ Irq'.rx = Irq.rx /\ Irq'.more = Irq.more
      /\ ctx'["task"] = ctx["task"]
  <2>1. "irq" \in Contexts /\ "task" \in Contexts /\ "clear" \in HandlerPcs /\ "read" \in HandlerPcs
    BY DEF Contexts, HandlerPcs
  <2>2. Step("irq", "clear", "read")
    BY DEF ClearStatus
  <2> QED BY <1>1, <2>1, <2>2, StepTyped DEF Types, Irq
<1>4. Waiting' = Waiting /\ Taken' = Taken
  BY <1>1, <1>2, KeptRing
<1>5. ~Receiving /\ ~Receiving' /\ Newest' = Newest
  BY <1>3, <1>4 DEF Receiving, Newest
<1>6. Handling'
  BY <1>1, <1>2, <1>3, <1>4, <1>5 DEF Handling
<1>7. Mailbox'
  BY <1>1, <1>2, <1>3, <1>5 DEF Mailbox
<1>8. Taking'
  BY <1>1, <1>2, <1>3 DEF Taking
<1> QED BY <1>2, <1>3, <1>6, <1>7, <1>8 DEF Agreed

(* Every step of the interrupt, and what it owes to a packet that waits.   *)
LEMMA IrqStepKeeps ==
  ASSUME InOrder, IrqStep
  PROVE  Ring' /\ Agreed' /\ (Clearing => Clearing')
<1>1. /\ Types /\ Ring /\ Handling /\ Mailbox /\ Taking
      /\ Waiting \in Nat /\ Taken \in Nat /\ nic.rx \in BOOLEAN
  BY WaitingTyped DEF InOrder, Ring, Types, CardTyped
<1>2. ASSUME RingKept PROVE Ring' /\ Waiting' = Waiting
  BY <1>1, <1>2, KeptRing
<1>3. Onward("irq") = IF Irq.more THEN "receive" ELSE "clear"
  BY DEF Onward, Irq
<1>4. CASE ReadStatus("irq")
  <2>1. /\ Agreed' /\ Ring' /\ Waiting' = Waiting
        /\ (Irq'.pc = "clear" => ~Irq'.rx /\ ~Irq'.more) /\ ~Receiving'
    BY <1>2, <1>4, IrqReadsStatus
  <2>2. nic'.rx = nic.rx
    BY <1>4 DEF ReadStatus
  <2> QED BY <1>1, <2>1, <2>2 DEF Clearing
<1>5. CASE Receive("irq")
  <2>1. /\ Agreed' /\ Ring' /\ Irq'.pc = "process" /\ (~Irq'.more => Waiting' = 0)
        /\ nic'.rx = nic.rx /\ Waiting > 0
    BY <1>5, IrqReceives
  <2> QED BY <2>1 DEF Clearing, Receiving
<1>6. CASE AcceptUdp("irq")
  <2>1. /\ Agreed' /\ RingKept /\ Irq.pc = "process" /\ Irq'.more = Irq.more /\ Irq'.rx = Irq.rx
        /\ Irq'.pc \in {"receive", "clear", "store"}
    BY <1>6, IrqAccepts
  <2>2. nic'.rx = nic.rx /\ (Irq'.pc \in {"clear", "store"} => Irq'.pc = "store" \/ ~Irq.more)
    <3>1. nic' = nic
      BY <1>6 DEF AcceptUdp
    <3>2. Step("irq", "process", Onward("irq")) \/ Step("irq", "process", "store")
      BY <1>6 DEF AcceptUdp
    <3>3. "irq" \in Contexts /\ "process" \in HandlerPcs /\ "store" \in HandlerPcs
      BY DEF Contexts, HandlerPcs
    <3>4. Irq'.pc = Onward("irq") \/ Irq'.pc = "store"
      BY <1>1, <3>2, <3>3, OnwardTyped, StepTyped DEF Types, Irq
    <3> QED BY <1>3, <3>1, <3>4
  <2>3. Ring' /\ Waiting' = Waiting
    BY <1>2, <2>1
  <2> QED BY <1>1, <2>1, <2>2, <2>3 DEF Clearing, Receiving
<1>7. CASE StoreHead("irq")
  <2>1. Agreed' /\ RingKept /\ Irq.pc = "store" /\ Irq'.pc = "copy" /\ Irq'.more = Irq.more
    BY <1>7, IrqStoresHead
  <2>2. Ring' /\ Waiting' = Waiting /\ nic' = nic
    BY <1>2, <1>7, <2>1 DEF StoreHead
  <2> QED BY <2>1, <2>2 DEF Clearing, Receiving
<1>8. CASE StoreData("irq")
  <2>1. /\ Agreed' /\ RingKept /\ Irq.pc = "copy" /\ Irq'.pc = Onward("irq")
        /\ Irq'.more = Irq.more /\ Irq'.rx = Irq.rx
    BY <1>8, IrqStoresData
  <2>2. Ring' /\ Waiting' = Waiting /\ nic' = nic
    BY <1>2, <1>8, <2>1 DEF StoreData
  <2> QED BY <1>3, <2>1, <2>2 DEF Clearing, Receiving
<1>9. CASE LearnAddress("irq") \/ AnswerRequest("irq") \/ IgnorePacket("irq")
  <2>1. /\ Step("irq", "process", Onward("irq")) /\ UNCHANGED <<rx_next, tmp_buff, mail, task, got, log>>
        /\ RingKept /\ nic'.rx = nic.rx
    <3>1. nic' = nic \/ \E reply : nic' = [nic EXCEPT !.tx = reply, !.dma = "none", !.rdc = FALSE]
      BY <1>9 DEF LearnAddress, AnswerRequest, IgnorePacket
    <3>2. /\ Step("irq", "process", Onward("irq"))
          /\ UNCHANGED <<rx_next, tmp_buff, mail, task, got, log>>
      BY <1>9 DEF LearnAddress, AnswerRequest, IgnorePacket
    <3>3. nic'.mem = nic.mem /\ nic'.curr = nic.curr /\ nic'.bndry = nic.bndry /\ nic'.rx = nic.rx
      BY <1>1, <3>1 DEF Types, CardTyped
    <3> QED BY <3>2, <3>3 DEF RingKept
  <2>2. Agreed' /\ Ring' /\ Waiting' = Waiting
    BY <1>2, <2>1, LeavePacket
  <2>3. Irq.pc = "process" /\ Irq'.pc = Onward("irq") /\ Irq'.more = Irq.more /\ Irq'.rx = Irq.rx
    <3>1. "irq" \in Contexts /\ "process" \in HandlerPcs
      BY DEF Contexts, HandlerPcs
    <3> QED BY <1>1, <2>1, <3>1, OnwardTyped, StepTyped DEF Types, Irq
  <2> QED BY <1>3, <2>1, <2>2, <2>3 DEF Clearing, Receiving
<1>10. CASE ClearStatus("irq")
  <2>1. /\ Agreed' /\ RingKept /\ Irq.pc = "clear" /\ Irq'.pc = "read"
        /\ (nic'.rx <=> nic.rx /\ ~Irq.rx)
    BY <1>10, IrqClears
  <2>2. Ring' /\ Waiting' = Waiting
    BY <1>2, <2>1
  <2> QED BY <1>1, <2>1, <2>2 DEF Clearing, Receiving
<1>11. CASE Interrupt
  <2>1. /\ RingKept /\ nic.rx /\ UNCHANGED <<nic, rx_next, tmp_buff, mail, task, got, log>>
        /\ Step("irq", "off", "read")
    BY <1>11 DEF Interrupt, RingKept
  <2>2. /\ Irq.pc = "off" /\ Irq'.pc = "read" /\ Irq'.rx = Irq.rx /\ Irq'.more = Irq.more
        /\ ctx'["task"] = ctx["task"]
    <3>1. "irq" \in Contexts /\ "task" \in Contexts /\ "off" \in HandlerPcs /\ "read" \in HandlerPcs
      BY DEF Contexts, HandlerPcs
    <3> QED BY <1>1, <2>1, <3>1, StepTyped DEF Types, Irq
  <2>3. Ring' /\ Waiting' = Waiting /\ Taken' = Taken
    BY <1>1, <2>1, KeptRing
  <2>4. ~Receiving /\ ~Receiving' /\ Newest' = Newest
    BY <2>2, <2>3 DEF Receiving, Newest
  <2>5. Handling'
    BY <1>1, <2>1, <2>2, <2>3, <2>4 DEF Handling
  <2>6. Mailbox' /\ Taking'
    BY <1>1, <2>1, <2>2, <2>4 DEF Mailbox, Taking
  <2> QED BY <2>1, <2>2, <2>3, <2>4, <2>5, <2>6 DEF Agreed, Clearing
<1> QED
  BY <1>4, <1>5, <1>6, <1>7, <1>8, <1>9, <1>10, <1>11 DEF IrqStep, net_handler

-----------------------------------------------------------------------------
(* The calls.  A step of net_send touches neither the ring nor the mailbox.*)
LEMMA QuietCall ==
  ASSUME InOrder, RingKept, nic'.rx = nic.rx, UNCHANGED <<tmp_buff, mail, got, ctx>>,
         task'.pc \notin {"addr", "data", "release"}, task'.ret \in {"idle", "find"}
  PROVE  Ring' /\ Agreed' /\ (Clearing => Clearing')
<1>1. /\ Types /\ Ring /\ Handling /\ Mailbox /\ Taking
      /\ Waiting \in Nat /\ Taken \in Nat
  BY WaitingTyped DEF InOrder, Ring
<1>2. Ring' /\ Waiting' = Waiting /\ Taken' = Taken /\ log' = log
  BY <1>1, KeptRing DEF RingKept
<1>3. Irq' = Irq /\ ctx'["task"] = ctx["task"] /\ Receiving' = Receiving
  BY DEF Irq, Receiving
<1>4. Newest' = Newest
  BY <1>2, <1>3 DEF Newest
<1>5. Handling' /\ Mailbox'
  BY <1>1, <1>2, <1>3, <1>4 DEF Handling, Mailbox
<1>6. Taking'
  BY DEF Taking
<1>7. Clearing => Clearing'
  BY <1>2, <1>3 DEF Clearing
<1> QED BY <1>2, <1>5, <1>6, <1>7 DEF Agreed

LEMMA SendStepKeeps ==
  ASSUME InOrder, SendStep \/ net_send
  PROVE  Ring' /\ Agreed' /\ (Clearing => Clearing')
<1>1. /\ Types /\ task.ret \in {"idle", "find"}
  BY DEF InOrder, Taking
<1>2. PICK pc, dst, msg, ip, i, entry, ret, addr, data :
        task = [pc |-> pc, dst |-> dst, msg |-> msg, ip |-> ip, i |-> i,
                entry |-> entry, ret |-> ret, addr |-> addr, data |-> data]
  BY <1>1 DEF Types, TaskTyped
<1>3. nic'.mem = nic.mem /\ nic'.curr = nic.curr /\ nic'.bndry = nic.bndry /\ nic'.rx = nic.rx
  <2>1. \/ nic' = nic
        \/ nic' = [nic EXCEPT !.dma = "write"]
        \/ nic' = [nic EXCEPT !.dma = "none", !.rdc = TRUE, !.tx = snd_buff]
        \/ nic' = [nic EXCEPT !.rdc = FALSE]
    BY DEF SendStep, net_send, AddressFound, arp_request, GiveUp, udp_send, ip_send, eth_send,
           StartWrite, PutBytes, AwaitWrite, Transmit
  <2> QED BY <1>1, <2>1 DEF Types, CardTyped
<1>4. UNCHANGED <<rx_next, tmp_buff, ctx, log, mail, got>>
  BY DEF SendStep, net_send, AddressFound, arp_request, GiveUp, udp_send, ip_send, eth_send,
         StartWrite, PutBytes, AwaitWrite, Transmit, CardKept
<1>5. task'.pc \notin {"addr", "data", "release"} /\ task'.ret \in {"idle", "find"}
  <2>1. CASE AddressFound
    <3>1. task.pc = "find" /\ (task'.pc = task.pc \/ task'.pc = "fill") /\ task'.ret = task.ret
      BY <1>2, <2>1 DEF AddressFound
    <3> QED BY <1>1, <3>1
  <2>2. CASE arp_request
    BY <1>2, <2>2 DEF arp_request
  <2>3. CASE GiveUp \/ udp_send \/ StartWrite \/ PutBytes \/ AwaitWrite \/ Transmit
    <3>1. \E to \in {"idle", "ip", "bytes", "loaded", "start", task.ret} :
            task' = [task EXCEPT !.pc = to]
      BY <2>3 DEF GiveUp, udp_send, StartWrite, PutBytes, AwaitWrite, Transmit, Task
    <3> QED BY <1>1, <1>2, <3>1
  <2>4. CASE ip_send
    <3> DEFINE e  == find_mac_in_table(get_effective_ip(task.dst))
               to == IF e = NoEntry THEN "idle" ELSE "eth"
    <3>1. task' = [task EXCEPT !.pc = to, !.entry = e] /\ to \in {"idle", "eth"}
      BY <2>4 DEF ip_send
    <3> HIDE DEF e, to
    <3> QED BY <1>1, <1>2, <3>1
  <2>5. CASE eth_send
    BY <1>2, <2>5 DEF eth_send
  <2>6. CASE net_send
    BY <2>6 DEF net_send, NoCall
  <2> QED BY <2>1, <2>2, <2>3, <2>4, <2>5, <2>6 DEF SendStep
<1>6. RingKept
  BY <1>3, <1>4 DEF RingKept
<1> QED BY <1>3, <1>4, <1>5, <1>6, QuietCall

(* net_handler within net_recv finds nothing received: what was pending    *)
(* has interrupted it before, unless it comes within the reading.          *)
LEMMA PollKeeps ==
  ASSUME InOrder, "poll" \in Calm, net_handler("task") \/ net_recv
  PROVE  Ring' /\ Agreed' /\ (Clearing => Clearing')
<1>1. /\ Types /\ Ring /\ Handling /\ Mailbox /\ Taking
      /\ Waiting \in Nat /\ Taken \in Nat /\ nic.rx \in BOOLEAN
      /\ "irq" \in Contexts /\ "task" \in Contexts
  BY WaitingTyped DEF InOrder, Ring, Types, CardTyped, Contexts
<1>2. ctx["task"].pc \in {"off", "read", "clear"} /\ ~ctx["task"].rx
  BY <1>1 DEF Handling
<1>3. /\ ctx'["irq"] = ctx["irq"] /\ ctx'["task"].pc \in {"off", "read", "clear"}
      /\ ~ctx'["task"].rx
      /\ nic'.mem = nic.mem /\ nic'.curr = nic.curr /\ nic'.bndry = nic.bndry /\ nic'.rx = nic.rx
      /\ UNCHANGED <<rx_next, tmp_buff, mail, got, log>>
      /\ task' = task \/ (task'.pc = "mailbox" /\ task'.ret = "idle")
  <2>1. CASE net_recv
    BY <1>1, <1>2, <2>1 DEF net_recv, NoCall, Types, Handlers
  <2>2. CASE ReadStatus("task")
    <3>1. ~nic.rx
      BY <1>1, <2>2 DEF ReadStatus, Runs, Latent
    <3>2. \E h \in Handlers : /\ h.pc \in {"off", "clear"} /\ ~h.rx
                              /\ ctx' = [ctx EXCEPT !["task"] = h]
      <4> DEFINE h == [pc   |-> CASE ~nic.rx /\ ~nic.rdc -> "off"
                                  [] nic.rx /\ nic.bndry # nic.curr -> "receive"
                                  [] OTHER -> "clear",
                       rx   |-> nic.rx,
                       rdc  |-> nic.rdc,
                       more |-> FALSE]
      <4>1. ctx' = [ctx EXCEPT !["task"] = h]
        BY <2>2 DEF ReadStatus
      <4>2. h.pc \in {"off", "clear"} /\ ~h.rx
        BY <3>1
      <4>3. h \in Handlers
        BY <1>1, <4>2 DEF Handlers, HandlerPcs, Types, CardTyped
      <4> QED BY <4>1, <4>2, <4>3
    <3>3. UNCHANGED <<nic, rx_next, tmp_buff, mail, got, log, task>>
      BY <2>2 DEF ReadStatus
    <3> QED BY <1>1, <3>2, <3>3 DEF Types
  <2>3. CASE ClearStatus("task")
    <3>1. Step("task", "clear", "read") /\ UNCHANGED <<rx_next, tmp_buff, mail, got, log, task>>
      BY <2>3 DEF ClearStatus
    <3>2. /\ nic'.rx = (nic.rx /\ ~ctx["task"].rx)
          /\ nic'.mem = nic.mem /\ nic'.curr = nic.curr /\ nic'.bndry = nic.bndry
      BY <1>1, <2>3 DEF ClearStatus, Types, CardTyped
    <3>3. nic'.rx = nic.rx
      BY <1>1, <1>2, <3>2
    <3>4. "clear" \in HandlerPcs /\ "read" \in HandlerPcs
      BY DEF HandlerPcs
    <3>5. ctx'["irq"] = ctx["irq"] /\ ctx'["task"].pc = "read" /\ ctx'["task"].rx = ctx["task"].rx
      BY <1>1, <3>1, <3>4, StepTyped DEF Types
    <3> QED BY <1>2, <3>1, <3>2, <3>3, <3>5
  <2>4. ctx["task"].pc \notin {"receive", "process", "store", "copy"}
    BY <1>2
  <2> QED BY <2>1, <2>2, <2>3, <2>4 DEF net_handler, Receive, AcceptUdp, StoreHead, StoreData,
             LearnAddress, AnswerRequest, IgnorePacket, Step
<1>4. Ring' /\ Waiting' = Waiting /\ Taken' = Taken
  BY <1>1, <1>3, KeptRing DEF RingKept
<1>5. Irq' = Irq /\ Receiving' = Receiving /\ Newest' = Newest
  BY <1>3, <1>4 DEF Irq, Receiving, Newest
<1>6. Handling' /\ Mailbox' /\ Taking'
  BY <1>1, <1>3, <1>4, <1>5 DEF Handling, Mailbox, Taking
<1>7. Clearing => Clearing'
  BY <1>3, <1>4, <1>5 DEF Clearing
<1> QED BY <1>4, <1>6, <1>7 DEF Agreed

(* What Delivery says of a step.                                           *)
Delivered == got' # got => /\ got'.data \in got.data + 1 .. Len(log)
                           /\ log[got'.data].kind = "udp"
                           /\ log[got'.data].from = got'.addr

(* While net_recv reads the mailbox nothing is stored in it.               *)
LEMMA RecvStepKeeps ==
  ASSUME InOrder, RecvStep
  PROVE  Ring' /\ Agreed' /\ (Clearing => Clearing') /\ Delivered
<1>1. /\ Types /\ Ring /\ Handling /\ Mailbox /\ Taking
      /\ Waiting \in Nat /\ Taken \in Nat /\ Taken <= Len(log) /\ Len(log) \in Nat
  BY WaitingTyped DEF InOrder, Ring
<1>2. Irq.pc = "off"
  BY DEF RecvStep, LookIntoMailbox, CopyAddress, CopyData, ReleaseMailbox, Task, Runs, Irq
<1>3. UNCHANGED <<nic, rx_next, tmp_buff, ctx, log>>
  BY DEF RecvStep, LookIntoMailbox, CopyAddress, CopyData, ReleaseMailbox, CardKept
<1>4. Ring' /\ Waiting' = Waiting /\ Taken' = Taken
  BY <1>1, <1>3, KeptRing DEF RingKept
<1>5. Irq' = Irq /\ ~Receiving /\ ~Receiving' /\ Newest' = Newest /\ Newest = Taken
  BY <1>2, <1>3, <1>4 DEF Irq, Receiving, Newest
<1>6. Handling' /\ (Clearing => Clearing')
  BY <1>1, <1>3, <1>4, <1>5 DEF Handling, Clearing
<1>7. PICK pc, dst, msg, ip, i, entry, ret, addr, data :
        task = [pc |-> pc, dst |-> dst, msg |-> msg, ip |-> ip, i |-> i,
                entry |-> entry, ret |-> ret, addr |-> addr, data |-> data]
  BY <1>1 DEF Types, TaskTyped
<1>8. CASE ReleaseMailbox
  <2>1. /\ task.pc = "release" /\ task' = [task EXCEPT !.pc = "idle"]
        /\ mail' = [mail EXCEPT !.size = 0] /\ got' = [addr |-> task.addr, data |-> task.data]
    BY <1>8 DEF ReleaseMailbox, Task
  <2>2. got'.data = mail.data /\ got'.addr = mail.addr /\ mail.size = 1
    BY <1>1, <2>1 DEF Taking
  <2>3. /\ mail.data \in got.data + 1 .. Taken /\ log[mail.data].kind = "udp"
        /\ log[mail.data].from = mail.addr /\ got.data \in 0 .. Taken
    BY <1>1, <1>2, <1>5, <2>2 DEF Mailbox
  <2>4. Delivered
    BY <1>1, <2>2, <2>3 DEF Delivered
  <2>5. mail'.size = 0 /\ got'.data \in 0 .. Newest'
    BY <1>1, <1>5, <2>1, <2>2, <2>3 DEF Types, MailTyped
  <2>6. Mailbox'
    BY <1>2, <1>5, <2>5 DEF Mailbox
  <2>7. Taking'
    BY <1>1, <1>7, <2>1 DEF Taking
  <2> QED BY <1>4, <1>6, <2>4, <2>6, <2>7 DEF Agreed
<1>9. CASE LookIntoMailbox \/ CopyAddress \/ CopyData
  <2>1. UNCHANGED <<mail, got>>
    BY <1>9 DEF LookIntoMailbox, CopyAddress, CopyData
  <2>2. Mailbox' /\ Delivered
    BY <1>1, <1>3, <1>5, <2>1 DEF Mailbox, Delivered
  <2>3. mail.size \in 0 .. 1
    BY <1>1 DEF Types, MailTyped
  <2>4. Taking'
    <3>1. CASE LookIntoMailbox
      <4> DEFINE to == IF mail.size > 0 THEN "addr" ELSE "idle"
      <4> HIDE DEF to
      <4>1. task' = [task EXCEPT !.pc = to]
        BY <3>1 DEF LookIntoMailbox, Task, to
      <4>2. task'.pc = to /\ task'.ret = task.ret
        BY <1>7, <4>1
      <4> QED BY <1>1, <1>2, <1>5, <2>1, <2>3, <4>2 DEF Taking, to
    <3>2. CASE CopyAddress
      <4>1. task.pc = "addr" /\ task' = [task EXCEPT !.pc = "data", !.addr = mail.addr]
        BY <3>2 DEF CopyAddress
      <4>2. task'.pc = "data" /\ task'.ret = task.ret /\ task'.addr = mail.addr
        BY <1>7, <4>1
      <4> QED BY <1>1, <1>2, <1>5, <2>1, <4>1, <4>2 DEF Taking
    <3>3. CASE CopyData
      <4>1. task.pc = "data" /\ task' = [task EXCEPT !.pc = "release", !.data = mail.data]
        BY <3>3 DEF CopyData
      <4>2. /\ task'.pc = "release" /\ task'.ret = task.ret
            /\ task'.addr = task.addr /\ task'.data = mail.data
        BY <1>7, <4>1
      <4> QED BY <1>1, <1>2, <1>5, <2>1, <4>1, <4>2 DEF Taking
    <3> QED BY <1>9, <3>1, <3>2, <3>3
  <2> QED BY <1>4, <1>6, <2>2, <2>4 DEF Agreed
<1> QED BY <1>8, <1>9 DEF RecvStep

(* A packet arrives.                                                       *)
LEMMA ArriveKeeps ==
  ASSUME InOrder, Arrive
  PROVE  Ring' /\ Agreed' /\ (Clearing /\ "clear" \in Calm => Clearing')
<1>1. /\ Types /\ Ring /\ Handling /\ Mailbox /\ Taking
  BY DEF InOrder
<1>2. /\ Ring' /\ Waiting' = Waiting + 1 /\ Taken' = Taken
      /\ Waiting \in Nat /\ Taken \in Nat
      /\ \A k \in 1 .. Taken : log'[k] = log[k]
  BY <1>1, ArriveRing
<1>3. UNCHANGED <<tmp_buff, mail, ctx, task, got>>
  BY DEF Arrive
<1>4. nic'.rx
  BY <1>1, ArriveTypes
<1>5. Irq' = Irq /\ Receiving' = Receiving /\ Newest' = Newest
  BY <1>2, <1>3 DEF Irq, Receiving, Newest
<1>6. Handling'
  BY <1>1, <1>2, <1>3, <1>4, <1>5 DEF Handling
<1>7. Mailbox'
  <2>1. Newest <= Taken /\ Newest \in Int
    BY <1>2 DEF Newest
  <2>2. ASSUME mail.size = 1, Irq.pc # "copy"
        PROVE  /\ mail.data \in got.data + 1 .. Newest
               /\ log'[mail.data].kind = "udp" /\ log'[mail.data].from = mail.addr
    <3>1. /\ mail.data \in got.data + 1 .. Newest /\ got.data \in 0 .. Newest
          /\ log[mail.data].kind = "udp" /\ log[mail.data].from = mail.addr
      BY <1>1, <2>2 DEF Mailbox
    <3>2. mail.data \in 1 .. Taken
      BY <1>2, <2>1, <3>1
    <3> QED BY <1>2, <3>1, <3>2
  <2> QED BY <1>1, <1>3, <1>5, <2>2 DEF Mailbox
<1>8. Taking'
  BY <1>1, <1>3, <1>5 DEF Taking
<1>9. ASSUME Clearing, "clear" \in Calm PROVE Clearing'
  <2>1. Irq.pc \notin {"process", "store", "copy", "clear"} \/ Irq.more
    <3>1. \E p \in Packets : ~Falls(p, "clear")
      BY <1>9 DEF Arrive
    <3>2. "irq" \in Contexts
      BY DEF Contexts
    <3> QED BY <3>1, <3>2 DEF Falls, Irq
  <2>2. Irq.pc # "clear" /\ ~(Receiving /\ ~Irq.more)
    BY <1>9, <2>1 DEF Clearing, Receiving
  <2> QED BY <1>4, <1>5, <2>2 DEF Clearing
<1> QED BY <1>2, <1>6, <1>7, <1>8, <1>9 DEF Agreed

-----------------------------------------------------------------------------
LEMMA InOrderInit == Init => InOrder /\ Clearing
<1> SUFFICES ASSUME Init PROVE InOrder /\ Clearing
  OBVIOUS
<1>1. rx_next = 1 /\ nic.curr = 1 /\ nic.bndry = 0 /\ ~nic.rx /\ log = <<>>
  BY DEF Init
<1>2. Waiting = 0 /\ Taken = 0 /\ Len(log) = 0
  BY <1>1 DEF Waiting, Taken, Dist
<1>3. Ring
  <2>1. 1 \in Pages /\ Before(1) = 0
    <3>1. 1 \in Pages
      BY RingAssumption DEF Pages
    <3> QED BY <3>1, Circle
  <2> QED BY <1>1, <1>2, <2>1, RingAssumption DEF Ring
<1>4. Irq = NoHandler /\ ctx["task"] = NoHandler
  BY DEF Init, Irq, Contexts
<1>5. Handling /\ ~Receiving
  BY <1>1, <1>4 DEF Handling, Receiving, NoHandler
<1>6. Mailbox
  BY <1>2, <1>4, <1>5 DEF Init, Mailbox, Newest, NoHandler
<1>7. Taking
  BY DEF Init, Taking, NoCall
<1>8. Clearing
  BY <1>2, <1>4, <1>5 DEF Clearing, NoHandler
<1> QED BY <1>3, <1>5, <1>6, <1>7, <1>8, TypesInit DEF InOrder

LEMMA InOrderStep ==
  ASSUME InOrder, "poll" \in Calm, [Next]_vars
  PROVE  InOrder' /\ ("clear" \in Calm /\ Clearing => Clearing') /\ Delivered
<1>1. Types'
  BY TypesStep DEF InOrder
<1>2. ASSUME Ring', Agreed' PROVE InOrder'
  BY <1>1, <1>2 DEF InOrder, Agreed
<1>3. ASSUME UNCHANGED got PROVE Delivered
  BY <1>3 DEF Delivered
<1>4. CASE Arrive
  BY <1>2, <1>3, <1>4, ArriveKeeps DEF Arrive
<1>5. CASE IrqStep
  <2>1. UNCHANGED got
    BY <1>5 DEF IrqStep, Interrupt, net_handler, ReadStatus, Receive, ClearStatus, AcceptUdp,
                StoreHead, StoreData, LearnAddress, AnswerRequest, IgnorePacket
  <2> QED BY <1>2, <1>3, <1>5, <2>1, IrqStepKeeps
<1>6. CASE SendStep \/ net_send
  <2>1. UNCHANGED got
    BY <1>6 DEF SendStep, net_send, AddressFound, arp_request, GiveUp, udp_send, ip_send, eth_send,
                StartWrite, PutBytes, AwaitWrite, Transmit
  <2> QED BY <1>2, <1>3, <1>6, <2>1, SendStepKeeps
<1>7. CASE net_handler("task") \/ net_recv
  <2>1. UNCHANGED got
    BY <1>7 DEF net_recv, net_handler, ReadStatus, Receive, ClearStatus, AcceptUdp,
                StoreHead, StoreData, LearnAddress, AnswerRequest, IgnorePacket
  <2> QED BY <1>2, <1>3, <1>7, <2>1, PollKeeps
<1>8. CASE RecvStep
  BY <1>2, <1>8, RecvStepKeeps
<1>9. CASE UNCHANGED vars
  <2>1. UNCHANGED <<nic, rx_next, tmp_buff, mail, ctx, task, got, log>>
    BY <1>9 DEF vars
  <2>2. RingKept /\ nic'.rx = nic.rx
    BY <2>1 DEF RingKept
  <2>3. Ring' /\ Waiting' = Waiting /\ Taken' = Taken
    BY <2>2, KeptRing DEF InOrder
  <2>4. Irq' = Irq /\ Receiving' = Receiving /\ Newest' = Newest
    BY <2>1, <2>3 DEF Irq, Receiving, Newest
  <2>5. Handling' /\ Mailbox' /\ Taking'
    BY <2>1, <2>3, <2>4 DEF InOrder, Handling, Mailbox, Taking
  <2>6. Clearing => Clearing'
    BY <2>1, <2>3, <2>4 DEF Clearing
  <2> QED BY <1>2, <1>3, <2>1, <2>3, <2>5, <2>6 DEF Agreed
<1> QED
  BY <1>4, <1>5, <1>6, <1>7, <1>8, <1>9 DEF Next, CallStep

(* What net_recv returns is one packet that arrived, its data with its     *)
(* sender, and a later one each time, when no packet comes within its      *)
(* reading of the status: otherwise net_recv and the interrupt of the card *)
(* both store into the mailbox.                                            *)
THEOREM DeliveryAlways ==
  ASSUME "poll" \in Calm
  PROVE  Spec => Delivery
<1>1. InOrder /\ [Next]_vars => InOrder'
  BY InOrderStep
<1>2. InOrder /\ [Next]_vars =>
        [got' # got => /\ got'.data \in got.data + 1 .. Len(log)
                       /\ log[got'.data].kind = "udp"
                       /\ log[got'.data].from = got'.addr]_vars
  BY InOrderStep DEF Delivered
<1> QED BY <1>1, <1>2, InOrderInit, PTL DEF Spec, Delivery

(* net.c:816: when the handler is done no packet is left in the ring, when *)
(* none comes between its last look at CURR and the clearing of RX.        *)
THEOREM NothingStrandedAlways ==
  ASSUME "poll" \in Calm, "clear" \in Calm
  PROVE  Spec => []NothingStranded
<1>1. InOrder /\ Clearing /\ [Next]_vars => (InOrder /\ Clearing)'
  BY InOrderStep
<1>2. InOrder /\ Clearing => NothingStranded
  <2> SUFFICES ASSUME InOrder, Clearing, ~nic.rx PROVE rx_next = nic.curr
    BY DEF NothingStranded
  <2>1. Waiting = 0
    BY WaitingTyped DEF InOrder, Clearing
  <2>2. rx_next \in Pages /\ nic.curr \in Pages
    BY DEF InOrder, Types, CardTyped
  <2> QED BY <2>1, <2>2, Distances DEF Waiting
<1> QED BY <1>1, <1>2, InOrderInit, PTL DEF Spec

-----------------------------------------------------------------------------
(* What net_send transmits, in a network with fewer addresses than the     *)
(* table has entries: then no entry is given to another address.           *)

Peers == {p.from : p \in {q \in Packets : q.kind = "reply"}}
SmallNet ==
  /\ Peers \cap {Broadcast, Nobody} = {}
  /\ IsFiniteSet(Peers) /\ Cardinality(Peers) < ARP_TABLE_LEN
  /\ \A dst \in Dsts : get_effective_ip(dst) \notin {LocalIP, Broadcast, Nobody}

(* The table holds what was announced.                                     *)
Named == \A i \in Entries : i # 0 /\ arp_table[i].ip # Nobody =>
                              arp_table[i].mac \in Announced(arp_table[i].ip)

(* No request waits to be answered while a datagram is built.              *)
Quiet == task.pc \in Sending =>
           /\ \A k \in Taken + 1 .. Len(log) : log[k].kind # "request"
           /\ Irq.pc = "process" => tmp_buff.kind # "request"

(* The datagram, from its building to its transmission.                    *)
Destination == get_effective_ip(task.dst)
Addressed   == task.pc \in {"load", "bytes", "loaded", "start"} /\ task.ret = "idle"
Whole ==
  /\ task.pc \in Sending => task.dst \in Dsts
  /\ task.pc \in {"ip", "eth"} \/ Addressed => snd_buff = Frame("udp", snd_buff.to, task.msg)
  /\ task.pc = "eth" => task.entry \in Entries /\ arp_table[task.entry].ip = Destination
  /\ Addressed => snd_buff.to \in Announced(Destination)
  /\ task.pc \in {"bytes", "loaded"} => ~nic.rx /\ Irq.pc = "off"
  /\ task.pc = "bytes" => nic.dma = "write"
  /\ task.pc \in {"loaded", "start"} => nic.tx = snd_buff

Sends == InOrder /\ Clearing /\ Sound(arp_table) /\ Named /\ Quiet /\ Whole

LEMMA AnnouncedPeer ==
  ASSUME NEW ip, NEW mac \in Announced(ip)
  PROVE  ip \in Peers
BY DEF Announced, Peers

(* A reply leaves the addresses in the table at their entries.             *)
LEMMA ReplyKeepsNames ==
  ASSUME SmallNet, Types, Sound(arp_table), Named, NEW c \in Contexts, LearnAddress(c)
  PROVE  /\ Named'
         /\ \A i \in Entries : arp_table[i].ip # Nobody => arp_table'[i].ip = arp_table[i].ip
<1> DEFINE ip    == tmp_buff.from
           e     == EntryFor(ip)
           entry == [ip |-> ip, mac |-> tmp_buff.mac]
<1>1. ip \in Peers /\ tmp_buff.mac \in Announced(ip) /\ ip # Nobody
  <2>1. tmp_buff \in Arrived /\ tmp_buff.kind = "reply"
    BY DEF LearnAddress, NoPacket, Types
  <2>2. PICK p \in Packets : p.kind = "reply" /\ p.from = tmp_buff.from /\ p.mac = tmp_buff.mac
    BY <2>1 DEF Arrived
  <2> QED BY <2>2 DEF Announced, Peers, SmallNet
<1>2. arp_table' = [arp_table EXCEPT ![e] = entry]
  BY DEF LearnAddress
<1>3. arp_table = [i \in Entries |-> arp_table[i]]
  BY DEF Types, TableTyped
<1>4. entry.ip = ip /\ entry.mac = tmp_buff.mac
  OBVIOUS
<1>5. \/ e = LocalEntry
      \/ e \in Entries /\ arp_table[e].ip = ip
      \/ /\ e \in Entries /\ \A i \in Entries : arp_table[i].ip # ip
         /\ \/ arp_table[e].ip = Nobody
            \/ e = ARP_TABLE_LEN - 1 /\ \A i \in Entries : arp_table[i].ip # Nobody
  BY <1>1, EntryForReply
<1> HIDE DEF ip, e, entry
<1>6. \A i \in Entries : arp_table'[i] = IF i = e THEN entry ELSE arp_table[i]
  BY <1>2, <1>3
<1>7. ASSUME \A i \in Entries : arp_table[i].ip # ip, \A i \in Entries : arp_table[i].ip # Nobody
      PROVE  FALSE
  <2> DEFINE f == [i \in Entries |-> IF i = 0 THEN ip ELSE arp_table[i].ip]
  <2>1. \A i \in Entries : i # 0 => arp_table[i].ip \in Peers
    BY <1>7, AnnouncedPeer DEF Named
  <2>2. f \in [Entries -> Peers]
    BY <1>1, <2>1
  <2>3. IsFiniteSet(Entries) /\ Cardinality(Entries) = ARP_TABLE_LEN
    <3>1. ARP_TABLE_LEN - 1 \in Int /\ 0 \in Int /\ ~(0 > ARP_TABLE_LEN - 1)
          /\ ARP_TABLE_LEN - 1 - 0 + 1 = ARP_TABLE_LEN
      BY TableAssumption
    <3> QED BY <3>1, FS_Interval DEF Entries
  <2>4. PICK x \in Entries, y \in Entries : x # y /\ f[x] = f[y]
    <3> HIDE DEF f
    <3>1. IsFiniteSet(Peers) /\ Cardinality(Peers) < Cardinality(Entries)
      BY <2>3 DEF SmallNet
    <3> QED BY <2>2, <2>3, <3>1, FS_PigeonHole
  <2>5. x # 0 /\ y # 0
    BY <1>7, <2>4
  <2>6. arp_table[x].ip = arp_table[y].ip
    BY <2>4, <2>5
  <2> QED BY <1>7, <2>4, <2>6 DEF Sound
<1>8. \A i \in Entries : arp_table[i].ip # Nobody => arp_table'[i].ip = arp_table[i].ip
  <2> SUFFICES ASSUME NEW i \in Entries, arp_table[i].ip # Nobody
               PROVE  arp_table'[i].ip = arp_table[i].ip
    OBVIOUS
  <2>1. CASE i # e
    BY <1>6, <2>1
  <2>2. CASE i = e
    <3>1. arp_table[e].ip = ip
      BY <1>5, <1>7, <2>2 DEF LocalEntry, Entries
    <3> QED BY <1>4, <1>6, <2>2, <3>1
  <2> QED BY <2>1, <2>2
<1>9. Named'
  <2> SUFFICES ASSUME NEW i \in Entries, i # 0, arp_table'[i].ip # Nobody
               PROVE  arp_table'[i].mac \in Announced(arp_table'[i].ip)
    BY DEF Named
  <2>1. CASE i # e
    BY <1>6, <2>1 DEF Named
  <2>2. CASE i = e
    BY <1>1, <1>4, <1>6, <2>2 DEF ip
  <2> QED BY <2>1, <2>2
<1> QED BY <1>8, <1>9

(* The next datagram does not change by steps that leave the call, what it *)
(* has built and its transfer alone.                                       *)
LEMMA WholeKept ==
  ASSUME Whole, UNCHANGED <<task, snd_buff>>, nic'.tx = nic.tx,
         task.pc \in {"bytes", "loaded"} => ~nic'.rx /\ Irq'.pc = "off" /\ nic'.dma = nic.dma,
         task.pc = "eth" => arp_table'[task.entry].ip = arp_table[task.entry].ip
  PROVE  Whole'
BY DEF Whole, Destination, Addressed

LEMMA ArriveSends ==
  ASSUME Sends, Arrive, {"load", "answer"} \subseteq Calm
  PROVE  Quiet' /\ Whole' /\ Named'
<1>1. Types /\ Ring
  BY DEF Sends, InOrder
<1>2. PICK p \in Packets :
        /\ \A w \in Calm : ~Falls(p, w)
        /\ log' = Append(log, [kind |-> p.kind, from |-> p.from, mac |-> p.mac, n |-> Len(log) + 1])
        /\ nic' = [nic EXCEPT !.mem[nic.curr] = [pkt |-> [kind |-> p.kind, from |-> p.from,
                                                         mac |-> p.mac, n |-> Len(log) + 1],
                                                 next |-> After(nic.curr)],
                              !.curr = After(nic.curr), !.rx = TRUE]
        /\ UNCHANGED <<rx_next, tmp_buff, mail, arp_table, snd_buff, ctx, task, wire, got>>
  BY DEF Arrive
<1>3. Taken' = Taken /\ Taken \in Nat /\ Len(log) \in Nat /\ Taken <= Len(log)
  BY <1>1, ArriveRing, WaitingTyped
<1>4. /\ Len(log') = Len(log) + 1 /\ log'[Len(log) + 1].kind = p.kind
      /\ \A k \in 1 .. Len(log) : log'[k] = log[k]
  <2> DEFINE pkt == [kind |-> p.kind, from |-> p.from, mac |-> p.mac, n |-> Len(log) + 1]
  <2>1. log' = Append(log, pkt) /\ pkt.kind = p.kind
    BY <1>2
  <2>2. log \in Seq(Arrived) /\ log \in Seq(Arrived \cup {pkt}) /\ pkt \in Arrived \cup {pkt}
    <3> HIDE DEF pkt
    <3>1. log \in Seq(Arrived)
      BY <1>1 DEF Types
    <3>2. Arrived \subseteq Arrived \cup {pkt}
      OBVIOUS
    <3> QED BY <3>1, <3>2, SeqMonotonic
  <2> HIDE DEF pkt
  <2>3. /\ Len(log') = Len(log) + 1 /\ log'[Len(log) + 1] = pkt
        /\ \A k \in 1 .. Len(log) : log'[k] = log[k]
    BY <2>1, <2>2
  <2> QED BY <2>1, <2>3
<1>5. /\ task.pc \notin {"bytes", "loaded"}
      /\ task.pc \in Sending => p.kind # "request"
  BY <1>2 DEF Falls
<1>6. nic'.tx = nic.tx
  BY <1>1, <1>2 DEF Types, CardTyped
<1>7. Quiet'
  <2> SUFFICES ASSUME task.pc \in Sending
               PROVE  /\ \A k \in Taken + 1 .. Len(log') : log'[k].kind # "request"
                      /\ Irq.pc = "process" => tmp_buff.kind # "request"
    BY <1>2, <1>3 DEF Quiet, Irq
  <2>1. /\ \A k \in Taken + 1 .. Len(log) : log[k].kind # "request"
        /\ Irq.pc = "process" => tmp_buff.kind # "request"
    BY DEF Sends, Quiet
  <2>2. ASSUME NEW k \in Taken + 1 .. Len(log')
        PROVE  log'[k].kind # "request"
    <3>1. CASE k = Len(log) + 1
      BY <1>4, <1>5, <3>1
    <3>2. CASE k # Len(log) + 1
      <4>1. k \in 1 .. Len(log) /\ k \in Taken + 1 .. Len(log)
        BY <1>3, <1>4, <3>2
      <4> QED BY <1>4, <2>1, <4>1
    <3> QED BY <3>1, <3>2
  <2> QED BY <2>1, <2>2
<1>8. Whole'
  BY <1>2, <1>5, <1>6, WholeKept DEF Sends
<1>9. Named'
  BY <1>2 DEF Sends, Named
<1> QED BY <1>7, <1>8, <1>9

(* The interrupt finds no request while a datagram is built, and does not  *)
(* run while the card is loaded.                                           *)
LEMMA IrqSends ==
  ASSUME SmallNet, Sends, IrqStep
  PROVE  Quiet' /\ Whole' /\ Named'
<1>1. Types /\ Ring /\ Handling /\ Whole /\ Quiet /\ Named /\ Sound(arp_table)
      /\ Waiting \in Nat /\ Taken \in Nat /\ Len(log) \in Nat /\ Taken <= Len(log)
  BY WaitingTyped DEF Sends, InOrder, Ring
<1>2. UNCHANGED task
  BY DEF IrqStep, Interrupt, net_handler, ReadStatus, Receive, ClearStatus, AcceptUdp,
         StoreHead, StoreData, LearnAddress, AnswerRequest, IgnorePacket
<1>3. "irq" \in Contexts
  BY DEF Contexts
<1>4. task.pc \notin {"bytes", "loaded"}
  <2>1. Irq.pc # "off" \/ nic.rx
    BY DEF IrqStep, Interrupt, net_handler, ReadStatus, Receive, ClearStatus, AcceptUdp,
           StoreHead, StoreData, LearnAddress, AnswerRequest, IgnorePacket, Step, Irq
  <2> QED BY <1>1, <2>1 DEF Whole
<1>5. ASSUME RingKept
      PROVE  Taken' = Taken /\ log' = log
  BY <1>1, <1>5, KeptRing DEF RingKept
<1>6. Onward("irq") # "process"
  BY DEF Onward
<1>7. CASE Receive("irq")
  <2>1. Waiting > 0
    BY <1>1, <1>7 DEF Receive, Handling, Irq
  <2>2. Taken' = Taken + 1 /\ tmp_buff' = log[Taken + 1]
    BY <1>1, <1>3, <1>7, <2>1, ReceiveRing
  <2>3. Taken + 1 \in Taken + 1 .. Len(log)
    BY <1>1, <2>1 DEF Taken
  <2>4. UNCHANGED <<log, snd_buff, arp_table>> /\ nic'.tx = nic.tx
    BY <1>1, <1>7 DEF Receive, Types, CardTyped
  <2>5. Quiet'
    <3> SUFFICES ASSUME task.pc \in Sending
                 PROVE  /\ \A k \in Taken + 1 + 1 .. Len(log) : log[k].kind # "request"
                        /\ log[Taken + 1].kind # "request"
      BY <1>2, <2>2, <2>4 DEF Quiet
    <3>1. \A k \in Taken + 1 .. Len(log) : log[k].kind # "request"
      BY <1>1 DEF Quiet
    <3> QED BY <1>1, <2>3, <3>1
  <2> QED BY <1>1, <1>2, <1>4, <2>4, <2>5, WholeKept DEF Named
<1>8. CASE AnswerRequest("irq")
  <2>1. tmp_buff.kind = "request" /\ Irq.pc = "process"
    BY <1>8 DEF AnswerRequest, Step, Irq
  <2>2. task.pc \notin Sending
    BY <1>1, <2>1 DEF Quiet
  <2>3. Quiet' /\ Whole'
    BY <1>2, <2>2 DEF Quiet, Whole, Addressed, Sending
  <2> QED BY <1>1, <1>8, <2>3 DEF AnswerRequest, Named
<1>9. ASSUME RingKept, UNCHANGED <<tmp_buff, snd_buff>>, nic'.tx = nic.tx, Irq'.pc # "process",
             Named', task.pc = "eth" => arp_table'[task.entry].ip = arp_table[task.entry].ip
      PROVE  Quiet' /\ Whole' /\ Named'
  <2>1. Quiet'
    BY <1>1, <1>2, <1>5, <1>9 DEF Quiet
  <2> QED BY <1>1, <1>2, <1>4, <1>9, <2>1, WholeKept
<1>10. CASE LearnAddress("irq")
  <2>1. /\ Named'
        /\ \A i \in Entries : arp_table[i].ip # Nobody => arp_table'[i].ip = arp_table[i].ip
    BY <1>1, <1>3, <1>10, ReplyKeepsNames
  <2>2. task.pc = "eth" => arp_table'[task.entry].ip = arp_table[task.entry].ip
    <3> SUFFICES ASSUME task.pc = "eth"
                 PROVE  arp_table'[task.entry].ip = arp_table[task.entry].ip
      OBVIOUS
    <3>1. task.entry \in Entries /\ arp_table[task.entry].ip = Destination /\ task.dst \in Dsts
      BY <1>1 DEF Whole, Sending
    <3>2. Destination # Nobody
      BY <3>1 DEF SmallNet, Destination
    <3> QED BY <2>1, <3>1, <3>2
  <2>3. /\ UNCHANGED <<nic, rx_next, log, tmp_buff, snd_buff>> /\ Step("irq", "process", Onward("irq"))
    BY <1>10 DEF LearnAddress
  <2>4. Irq'.pc # "process"
    BY <1>1, <1>3, <1>6, <2>3 DEF Step, Irq, Types, Handlers
  <2> QED BY <1>9, <2>1, <2>2, <2>3, <2>4 DEF RingKept
<1>11. ASSUME UNCHANGED <<rx_next, log, tmp_buff, snd_buff, arp_table>>, Irq'.pc # "process",
              nic'.tx = nic.tx, nic'.mem = nic.mem, nic'.curr = nic.curr, nic'.bndry = nic.bndry
       PROVE  Quiet' /\ Whole' /\ Named'
  BY <1>1, <1>9, <1>11 DEF RingKept, Named
<1>12. CASE ReadStatus("irq")
  <2>1. Irq'.pc # "process"
    BY <1>1, <1>3, <1>12 DEF ReadStatus, Irq, Types
  <2> QED BY <1>11, <1>12, <2>1 DEF ReadStatus
<1>13. CASE ClearStatus("irq")
  <2>1. Irq'.pc # "process"
    BY <1>1, <1>3, <1>13 DEF ClearStatus, Step, Irq, Types, Handlers
  <2>2. nic'.tx = nic.tx /\ nic'.mem = nic.mem /\ nic'.curr = nic.curr /\ nic'.bndry = nic.bndry
    BY <1>1, <1>13 DEF ClearStatus, Types, CardTyped
  <2> QED BY <1>11, <1>13, <2>1, <2>2 DEF ClearStatus
<1>14. CASE AcceptUdp("irq") \/ StoreHead("irq") \/ StoreData("irq") \/ IgnorePacket("irq") \/ Interrupt
  <2>1. PICK from, to : Step("irq", from, to) /\ to # "process"
    BY <1>6, <1>14 DEF AcceptUdp, StoreHead, StoreData, IgnorePacket, Interrupt
  <2>2. Irq'.pc # "process"
    BY <1>1, <1>3, <2>1 DEF Step, Irq, Types, Handlers
  <2>3. UNCHANGED <<nic, rx_next, log, tmp_buff, snd_buff, arp_table>>
    BY <1>14 DEF AcceptUdp, StoreHead, StoreData, IgnorePacket, Interrupt
  <2> QED BY <1>11, <2>2, <2>3
<1> QED BY <1>7, <1>8, <1>10, <1>12, <1>13, <1>14 DEF IrqStep, net_handler

(* What SentWhole says of a step.                                          *)
Sent == (task.pc = "start" /\ task.ret = "idle" /\ task'.pc = "idle") =>
          /\ wire'.kind = "udp"
          /\ wire'.data = task.msg
          /\ wire'.to \in Announced(get_effective_ip(task.dst))

(* Nothing is asked of a call that sends nothing.                          *)
LEMMA NotSending ==
  ASSUME task'.pc \notin Sending
  PROVE  Quiet' /\ Whole'
BY DEF Quiet, Whole, Addressed, Sending

(* net_send begins when no packet waits.                                   *)
LEMMA BeginSends ==
  ASSUME Sends, net_send
  PROVE  Quiet' /\ Whole' /\ Named'
<1>1. /\ Types /\ Ring /\ Clearing /\ Named
      /\ Waiting \in Nat /\ Taken \in Nat /\ Len(log) \in Nat
  BY WaitingTyped DEF Sends, InOrder, Ring
<1>2. /\ UNCHANGED <<nic, rx_next, log, ctx, arp_table, snd_buff>> /\ Irq.pc = "off" /\ ~nic.rx
  BY DEF net_send, CardKept, Runs, Irq
<1>3. task'.pc = "find" /\ task'.dst \in Dsts
  BY DEF net_send, NoCall
<1>4. Waiting = 0
  BY <1>1, <1>2 DEF Clearing
<1>5. Taken' = Taken /\ log' = log
  BY <1>1, <1>2, KeptRing DEF RingKept
<1>6. Quiet'
  <2>1. Irq'.pc # "process"
    BY <1>2 DEF Irq
  <2>2. \A k \in Taken + 1 .. Len(log) : log[k].kind # "request"
    BY <1>1, <1>4 DEF Taken
  <2> QED BY <1>5, <2>1, <2>2 DEF Quiet
<1>7. Whole'
  BY <1>3 DEF Whole, Addressed
<1> QED BY <1>1, <1>2, <1>6, <1>7 DEF Named

(* The steps of net_send.                                                  *)
LEMMA CallSends ==
  ASSUME SmallNet, Sends, SendStep
  PROVE  Quiet' /\ Whole' /\ Named' /\ Sent
<1>1. Types /\ Ring /\ Taking /\ Whole /\ Quiet /\ Named /\ Sound(arp_table)
  BY DEF Sends, InOrder
<1>2. task.pc \in Sending
  BY DEF SendStep, AddressFound, arp_request, GiveUp, udp_send, ip_send, eth_send,
         StartWrite, PutBytes, AwaitWrite, Transmit, Task, Sending
<1>3. UNCHANGED <<rx_next, ctx, log, tmp_buff, arp_table>> /\ Irq' = Irq
  BY DEF SendStep, AddressFound, arp_request, GiveUp, udp_send, ip_send, eth_send,
         StartWrite, PutBytes, AwaitWrite, Transmit, CardKept, Irq
<1>4. /\ nic'.mem = nic.mem /\ nic'.curr = nic.curr /\ nic'.bndry = nic.bndry /\ nic'.rx = nic.rx
      /\ nic'.dma = nic.dma \/ StartWrite \/ PutBytes
      /\ nic'.tx = nic.tx \/ PutBytes
  <2>1. \/ nic' = nic
        \/ nic' = [nic EXCEPT !.dma = "write"] /\ StartWrite
        \/ nic' = [nic EXCEPT !.dma = "none", !.rdc = TRUE, !.tx = snd_buff] /\ PutBytes
        \/ nic' = [nic EXCEPT !.rdc = FALSE]
    BY DEF SendStep, AddressFound, arp_request, GiveUp, udp_send, ip_send, eth_send,
           StartWrite, PutBytes, AwaitWrite, Transmit
  <2> QED BY <1>1, <2>1 DEF Types, CardTyped
<1>5. Taken' = Taken
  BY <1>1, <1>3, <1>4, KeptRing DEF RingKept
<1>6. Quiet' /\ Named'
  BY <1>1, <1>2, <1>3, <1>5 DEF Quiet, Named
<1>7. PICK pc, dst, msg, ip, i, entry, ret, addr, data :
        task = [pc |-> pc, dst |-> dst, msg |-> msg, ip |-> ip, i |-> i,
                entry |-> entry, ret |-> ret, addr |-> addr, data |-> data]
  BY <1>1 DEF Types, TaskTyped
<1>8. task.dst \in Dsts /\ Destination \notin {LocalIP, Broadcast, Nobody}
  BY <1>1, <1>2 DEF Whole, SmallNet, Destination
<1>9. ~nic.rx /\ Irq.pc = "off"
  BY DEF SendStep, AddressFound, arp_request, GiveUp, udp_send, ip_send, eth_send,
         StartWrite, PutBytes, AwaitWrite, Transmit, Task, Runs, Irq
<1>10. CASE AddressFound
  <2>1. task.pc = "find" /\ (task'.pc = task.pc \/ task'.pc = "fill") /\ task'.dst = task.dst
    BY <1>7, <1>10 DEF AddressFound
  <2>2. Whole' /\ Sent
    BY <1>8, <2>1 DEF Whole, Addressed, Sent
  <2> QED BY <1>6, <2>2
<1>11. CASE arp_request
  <2>1. task.pc = "find" /\ task'.pc = "load" /\ task'.ret = "find" /\ task'.dst = task.dst
    BY <1>7, <1>11 DEF arp_request
  <2>2. Whole' /\ Sent
    BY <1>8, <2>1 DEF Whole, Addressed, Sent
  <2> QED BY <1>6, <2>2
<1>12. CASE GiveUp
  <2>1. task.pc = "find" /\ task'.pc = "idle"
    BY <1>7, <1>12 DEF GiveUp, Task
  <2>2. Whole' /\ Sent
    BY <2>1, NotSending DEF Sending, Sent
  <2> QED BY <1>6, <2>2
<1>13. CASE udp_send
  <2>1. task.pc = "fill" /\ task'.pc = "ip" /\ task'.dst = task.dst /\ task'.msg = task.msg
    BY <1>7, <1>13 DEF udp_send, Task
  <2>2. snd_buff' = Frame("udp", Nobody, task'.msg) /\ snd_buff'.to = Nobody
    BY <1>13, <2>1 DEF udp_send, Frame
  <2>3. Whole' /\ Sent
    BY <1>8, <2>1, <2>2 DEF Whole, Addressed, Sent
  <2> QED BY <1>6, <2>3
<1>14. CASE ip_send
  <2> DEFINE e == find_mac_in_table(Destination)
             found == {j \in Entries : arp_table[j].ip = Destination}
  <2>1. task.pc = "ip" /\ snd_buff = Frame("udp", snd_buff.to, task.msg) /\ snd_buff.kind = "udp"
    <3>1. task.pc = "ip" /\ snd_buff = Frame("udp", snd_buff.to, task.msg)
      BY <1>1, <1>14 DEF ip_send, Whole
    <3> QED BY <3>1 DEF Frame
  <2>2. /\ task' = [task EXCEPT !.pc = IF e = NoEntry THEN "idle" ELSE "eth", !.entry = e]
        /\ snd_buff' = snd_buff
    BY <1>14, <2>1 DEF ip_send, Destination
  <2>3. e = IF found # {} THEN Min(found) ELSE NoEntry
    BY <1>8 DEF find_mac_in_table
  <2> HIDE DEF e
  <2>4. /\ task'.pc = (IF e = NoEntry THEN "idle" ELSE "eth") /\ task'.entry = e
        /\ task'.dst = task.dst /\ task'.msg = task.msg
    BY <1>7, <2>2
  <2>5. CASE e = NoEntry
    <3>1. task'.pc \notin Sending
      BY <2>4, <2>5 DEF Sending
    <3> QED BY <1>6, <2>1, <3>1, NotSending DEF Sent
  <2>6. CASE e # NoEntry
    <3>1. found \in SUBSET Nat /\ found # {}
      BY <2>3, <2>6 DEF Entries
    <3>2. e \in found
      BY <2>3, <3>1, MinIsLeast
    <3>3. task'.pc = "eth" /\ task'.entry \in Entries /\ arp_table'[task'.entry].ip = Destination
      BY <1>3, <2>4, <2>6, <3>2
    <3>4. Destination' = Destination
      BY <2>4 DEF Destination
    <3>5. Whole' /\ Sent
      BY <1>8, <2>1, <2>2, <2>4, <3>3, <3>4 DEF Whole, Addressed, Sent
    <3> QED BY <1>6, <3>5
  <2> QED BY <2>5, <2>6
<1>15. CASE eth_send
  <2>1. /\ task.pc = "eth" /\ task'.pc = "load" /\ task'.ret = "idle"
        /\ task'.dst = task.dst /\ task'.msg = task.msg
    BY <1>7, <1>15 DEF eth_send
  <2>2. /\ snd_buff = Frame("udp", snd_buff.to, task.msg)
        /\ task.entry \in Entries /\ arp_table[task.entry].ip = Destination
    BY <1>1, <2>1 DEF Whole
  <2>3. task.entry # 0
    BY <1>1, <1>8, <2>2 DEF Sound
  <2>4. MacAt(task.entry) \in Announced(Destination)
    <3>1. task.entry # LocalEntry
      BY <2>2 DEF Entries, LocalEntry
    <3> QED BY <1>1, <1>8, <2>2, <2>3, <3>1 DEF Named, MacAt
  <2> DEFINE mac == MacAt(task.entry)
  <2>5. snd_buff' = [snd_buff EXCEPT !.to = mac]
    BY <1>15, <2>2 DEF eth_send, Frame
  <2> HIDE DEF mac
  <2>6. snd_buff' = Frame("udp", mac, task.msg) /\ snd_buff'.to = mac
    BY <2>2, <2>5 DEF Frame
  <2>7. Destination' = Destination
    BY <2>1 DEF Destination
  <2>8. Whole' /\ Sent
    BY <1>8, <2>1, <2>4, <2>6, <2>7 DEF Whole, Addressed, Sent, mac
  <2> QED BY <1>6, <2>8
<1>16. CASE StartWrite \/ PutBytes \/ AwaitWrite
  <2>1. /\ <<task.pc, task'.pc>> \in {<<"load", "bytes">>, <<"bytes", "loaded">>, <<"loaded", "start">>}
        /\ task'.dst = task.dst /\ task'.msg = task.msg /\ task'.ret = task.ret
        /\ snd_buff' = snd_buff
    BY <1>7, <1>16 DEF StartWrite, PutBytes, AwaitWrite, Task
  <2>2. (Addressed <=> Addressed') /\ Destination' = Destination
    BY <2>1 DEF Addressed, Destination
  <2>3. task'.pc = "bytes" => nic'.dma = "write"
    BY <1>1, <1>16, <2>1 DEF StartWrite, PutBytes, AwaitWrite, Task, Types, CardTyped
  <2>4. task'.pc \in {"loaded", "start"} => nic'.tx = snd_buff'
    <3>1. CASE PutBytes
      <4>1. nic.dma = "write"
        BY <1>1, <3>1 DEF PutBytes, Task, Whole
      <4> QED BY <1>1, <2>1, <3>1, <4>1 DEF PutBytes, Types, CardTyped
    <3>2. CASE StartWrite
      BY <3>2, <2>1 DEF StartWrite, Task
    <3>3. CASE AwaitWrite
      <4>1. nic.tx = snd_buff /\ nic' = [nic EXCEPT !.rdc = FALSE]
        BY <1>1, <3>3 DEF AwaitWrite, Task, Whole
      <4> QED BY <1>1, <2>1, <4>1 DEF Types, CardTyped
    <3> QED BY <1>16, <3>1, <3>2, <3>3
  <2>5. Addressed => snd_buff = Frame("udp", snd_buff.to, task.msg) /\ snd_buff.to \in Announced(Destination)
    BY <1>1 DEF Whole
  <2>6. Whole' /\ Sent
    BY <1>3, <1>4, <1>8, <1>9, <2>1, <2>2, <2>3, <2>4, <2>5 DEF Whole, Sent, Addressed
  <2> QED BY <1>6, <2>6
<1>17. CASE Transmit
  <2>1. task.pc = "start" /\ task'.pc = task.ret /\ wire' = nic.tx /\ task'.dst = task.dst
    BY <1>7, <1>17 DEF Transmit, Task
  <2>2. task.ret \in {"idle", "find"} /\ nic.tx = snd_buff
    BY <1>1, <2>1 DEF Taking, Whole
  <2>3. Whole'
    BY <1>8, <2>1, <2>2 DEF Whole, Addressed
  <2>4. Sent
    <3> SUFFICES ASSUME task.ret = "idle"
                 PROVE  /\ snd_buff.kind = "udp" /\ snd_buff.data = task.msg
                        /\ snd_buff.to \in Announced(Destination)
      BY <2>1, <2>2 DEF Sent, Destination
    <3>1. snd_buff = Frame("udp", snd_buff.to, task.msg) /\ snd_buff.to \in Announced(Destination)
      BY <1>1, <2>1 DEF Whole, Addressed
    <3> QED BY <3>1 DEF Frame
  <2> QED BY <1>6, <2>3, <2>4
<1> QED BY <1>10, <1>11, <1>12, <1>13, <1>14, <1>15, <1>16, <1>17 DEF SendStep

(* net_recv takes no part in it.                                           *)
LEMMA RecvSends ==
  ASSUME Sends, net_recv \/ RecvStep \/ net_handler("task") \/ UNCHANGED vars
  PROVE  Quiet' /\ Whole' /\ Named' /\ Sent
<1>1. Types /\ Ring /\ Handling /\ Whole /\ Quiet /\ Named
  BY DEF Sends, InOrder
<1>2. CASE net_recv \/ RecvStep
  <2>1. task'.pc \notin Sending /\ task.pc # "start" /\ UNCHANGED arp_table
    BY <1>1, <1>2 DEF net_recv, RecvStep, LookIntoMailbox, CopyAddress, CopyData, ReleaseMailbox, Task,
                      NoCall, Sending, Types, TaskTyped
  <2> QED BY <1>1, <2>1, NotSending DEF Named, Sent
<1>3. ASSUME UNCHANGED <<task, snd_buff, arp_table, tmp_buff, rx_next, log>>, Irq' = Irq, nic'.rx = nic.rx,
             nic'.tx = nic.tx, nic'.dma = nic.dma,
             nic'.mem = nic.mem, nic'.curr = nic.curr, nic'.bndry = nic.bndry
      PROVE  Quiet' /\ Whole' /\ Named' /\ Sent
  <2>1. Taken' = Taken
    BY <1>1, <1>3, KeptRing DEF RingKept
  <2>2. Quiet' /\ Named' /\ Sent
    BY <1>1, <1>3, <2>1 DEF Quiet, Named, Sent
  <2>3. Whole'
    BY <1>1, <1>3, WholeKept DEF Whole
  <2> QED BY <2>2, <2>3
<1>4. CASE net_handler("task")
  <2>1. "task" \in Contexts /\ "irq" \in Contexts /\ "task" # "irq"
    BY DEF Contexts
  <2>2. ctx["task"].pc \in {"off", "read", "clear"} /\ ~ctx["task"].rx
    BY <1>1 DEF Handling
  <2>3. ReadStatus("task") \/ ClearStatus("task")
    BY <1>4, <2>2 DEF net_handler, Receive, AcceptUdp, StoreHead, StoreData,
             LearnAddress, AnswerRequest, IgnorePacket, Step
  <2>4. /\ UNCHANGED <<task, snd_buff, arp_table, tmp_buff, rx_next, log>>
        /\ nic' = nic \/ nic' = [nic EXCEPT !.rx = @ /\ ~ctx["task"].rx, !.rdc = @ /\ ~ctx["task"].rdc]
    BY <2>3 DEF ReadStatus, ClearStatus
  <2>5. Irq' = Irq
    BY <1>1, <2>1, <2>3 DEF ReadStatus, ClearStatus, Step, Irq, Types
  <2>6. /\ nic'.rx = nic.rx /\ nic'.tx = nic.tx /\ nic'.dma = nic.dma
        /\ nic'.mem = nic.mem /\ nic'.curr = nic.curr /\ nic'.bndry = nic.bndry
    BY <1>1, <2>2, <2>4 DEF Types, CardTyped
  <2> QED BY <1>3, <2>4, <2>5, <2>6
<1>5. CASE UNCHANGED vars
  BY <1>3, <1>5 DEF vars, Irq
<1> QED BY <1>2, <1>4, <1>5

(* net.c:604: a net_send that reaches the end has transmitted the data it  *)
(* was given, to an address that its destination, or the gateway to it,    *)
(* announced, when no packet arrives in any of the windows and the network *)
(* has fewer addresses than the table entries: the frame in snd_buff, the  *)
(* entry found for it and the transfer to the card outlast the interrupts. *)
THEOREM SentWholeAlways ==
  ASSUME Calm = Windows, SmallNet
  PROVE  Spec => SentWhole
<1>1. Init => Sends
  <2> SUFFICES ASSUME Init PROVE Sends
    OBVIOUS
  <2>1. InOrder /\ Clearing
    BY InOrderInit
  <2>2. Sound(arp_table) /\ Named
    BY TableAssumption DEF Init, Sound, Named, Entries, FreeSlot, Broadcast, Nobody
  <2>3. Quiet /\ Whole
    BY DEF Init, NoCall, Quiet, Whole, Addressed, Sending
  <2> QED BY <2>1, <2>2, <2>3 DEF Sends
<1>2. Sends /\ [Next]_vars => Sends' /\ Sent
  <2> SUFFICES ASSUME Sends, [Next]_vars
               PROVE  Sends' /\ Sent
    OBVIOUS
  <2>1. {"poll", "clear", "load", "answer"} \subseteq Calm
    BY DEF Windows
  <2>2. InOrder' /\ Clearing'
    BY <2>1, InOrderStep DEF Sends
  <2>3. Sound(arp_table')
    <3>1. \A p \in Packets : p.kind = "reply" => p.from \notin {Broadcast, Nobody}
      BY DEF SmallNet, Peers
    <3> QED BY <3>1, TableStep DEF Sends, InOrder
  <2>4. Quiet' /\ Whole' /\ Named' /\ Sent
    <3>1. CASE Arrive \/ IrqStep \/ net_send
      <4>1. task.pc = "start" => task'.pc = "start"
        BY <3>1 DEF Arrive, IrqStep, Interrupt, net_handler, ReadStatus, Receive, ClearStatus, AcceptUdp,
             StoreHead, StoreData, LearnAddress, AnswerRequest, IgnorePacket, net_send
      <4> QED BY <2>1, <3>1, <4>1, ArriveSends, IrqSends, BeginSends DEF Sent
    <3>2. CASE SendStep
      BY <3>2, CallSends
    <3>3. CASE net_recv \/ RecvStep \/ net_handler("task") \/ UNCHANGED vars
      BY <3>3, RecvSends
    <3> QED BY <3>1, <3>2, <3>3 DEF Next, CallStep
  <2> QED BY <2>2, <2>3, <2>4 DEF Sends
<1>3. Sends /\ [Next]_vars =>
        [(task.pc = "start" /\ task.ret = "idle" /\ task'.pc = "idle") =>
           /\ wire'.kind = "udp"
           /\ wire'.data = task.msg
           /\ wire'.to \in Announced(get_effective_ip(task.dst))]_vars
  BY <1>2 DEF Sent
<1> QED BY <1>1, <1>2, <1>3, PTL DEF Spec, SentWhole
=============================================================================
