------------------------------- MODULE TunSend -------------------------------
(***************************************************************************)
(* The way of a packet from the TUN device to the radio: tun_raw_thread    *)
(* (src/tun_interface.cc) queues packets and, when the device has been     *)
(* quiet for the timeout, a flush for every link whose encoder holds       *)
(* blocks; raw_send_thread (src/raw_send_thread.cc) feeds the encoders and *)
(* transmits what they release.                                            *)
(*                                                                         *)
(* The contents of packets do not matter here: an encoder is the number of *)
(* blocks it holds, as FECEncoder describes in full.                       *)
(***************************************************************************)
EXTENDS Integers, Sequences, FiniteSets

CONSTANTS
  Links,         \* the entries of port_lut
  NoLink,        \* the null encoder of Message()
  NumBlocks,     \* blocks per group of each link; 0 without coding
  NumFecBlocks,  \* FEC blocks per group of each link; 0 without coding
  MaxQueue,      \* max_queue_size
  MaxRestarts    \* bound: times main() stops the send thread

ASSUME TunSendAssumption ==
  /\ IsFiniteSet(Links)
  /\ NoLink \notin Links
  /\ NumBlocks \in [Links -> 0..128]
  /\ NumFecBlocks \in [Links -> 0..128]
  /\ MaxQueue \in Nat \ {0}
  /\ MaxRestarts \in Nat

Coded(l) == NumBlocks[l] > 0 /\ NumFecBlocks[l] > 0

(* A message without data: a flush of its link or, from the supervisor,     *)
(* one without an encoder.                                                  *)
Queued == [link : Links, flush : BOOLEAN] \cup [link : {NoLink}, flush : {TRUE}]

VARIABLES
  outqueue,   \* messages for raw_send_thread
  toFlush,    \* links tun_raw_thread has still to look at; {} when reading
  held,       \* Len(m_in_blocks) of each encoder
  current,    \* the message raw_send_thread works on; NoLink when popping
  data, fec,  \* blocks left in the output of current's encoder
  restarts    \* bound spent

sendVars == <<held, current, data, fec>>
vars == <<outqueue, toFlush, sendVars, restarts>>

(* Mutant: the queue has no bound.                                          *)
PushedUnbounded(m) == Append(outqueue, m)
Pushed(m) == IF Len(outqueue) < MaxQueue THEN Append(outqueue, m) ELSE outqueue

Init ==
  /\ outqueue = <<>>
  /\ toFlush = {}
  /\ held = [l \in Links |-> 0]
  /\ current = NoLink
  /\ data = 0
  /\ fec = 0
  /\ restarts = 0

(***************************** tun_raw_thread ******************************)

(* read() returns a packet for a link; or select() fails, and the zeroed    *)
(* buffer goes to the link of whatever the port variable holds.             *)
TunPacket(l) ==
  /\ toFlush = {}
  /\ outqueue' = Pushed([link |-> l, flush |-> FALSE])
  /\ UNCHANGED <<toFlush, sendVars, restarts>>

(* select() times out, or the read fails: msg is empty.                     *)
TunTimeout ==
  /\ toFlush = {}
  /\ toFlush' = Links
  /\ UNCHANGED <<outqueue, sendVars, restarts>>

(* Mutant: flushes the links that hold nothing.                             *)
FlushLinkInverted(l) ==
  /\ l \in toFlush
  /\ toFlush' = toFlush \ {l}
  /\ outqueue' = IF held[l] = 0 THEN Pushed([link |-> l, flush |-> TRUE]) ELSE outqueue
  /\ UNCHANGED <<sendVars, restarts>>

(* One turn of the flush loop; is_flushed() looks at the encoder while      *)
(* raw_send_thread may be using it.                                         *)
FlushLink(l) ==
  /\ l \in toFlush
  /\ toFlush' = toFlush \ {l}
  /\ outqueue' = IF held[l] > 0 THEN Pushed([link |-> l, flush |-> TRUE]) ELSE outqueue
  /\ UNCHANGED <<sendVars, restarts>>

(* main() pushes the message without an encoder to stop the thread; the     *)
(* next thread may find it.                                                 *)
MainPush ==
  /\ restarts < MaxRestarts
  /\ restarts' = restarts + 1
  /\ outqueue' = Pushed([link |-> NoLink, flush |-> TRUE])
  /\ UNCHANGED <<toFlush, sendVars>>

(***************************** raw_send_thread *****************************)

Idle == current = NoLink

(* Mutant: waits for one block too many.                                    *)
GroupFullLate(l) == held[l] = NumBlocks[l]
GroupFull(l) == held[l] = NumBlocks[l] - 1

(* encode_blocks() on n held blocks.                                        *)
Encode(l, n) ==
  /\ held' = [held EXCEPT ![l] = 0]
  /\ data' = n
  /\ fec' = IF n = 0 THEN 0 ELSE NumFecBlocks[l]

PopNothing ==
  /\ Idle
  /\ outqueue # <<>>
  /\ Head(outqueue).link = NoLink
  /\ outqueue' = Tail(outqueue)
  /\ UNCHANGED <<toFlush, sendVars, restarts>>

PopFlush ==
  LET m == Head(outqueue) IN
  /\ Idle
  /\ outqueue # <<>>
  /\ m.link \in Links
  /\ m.flush
  /\ outqueue' = Tail(outqueue)
  /\ current' = m.link
  /\ Encode(m.link, held[m.link])
  /\ UNCHANGED <<toFlush, restarts>>

PopPacket ==
  LET m == Head(outqueue) IN
  /\ Idle
  /\ outqueue # <<>>
  /\ m.link \in Links
  /\ ~m.flush
  /\ outqueue' = Tail(outqueue)
  /\ current' = m.link
  /\ \/ /\ ~Coded(m.link)
        /\ data' = 1
        /\ UNCHANGED <<held, fec>>
     \/ /\ Coded(m.link)
        /\ GroupFull(m.link)
        /\ Encode(m.link, held[m.link] + 1)
     \/ /\ Coded(m.link)
        /\ ~GroupFull(m.link)
        /\ held' = [held EXCEPT ![m.link] = @ + 1]
        /\ UNCHANGED <<data, fec>>
  /\ UNCHANGED <<toFlush, restarts>>

(* A data block is always sent.                                             *)
SendData ==
  /\ data > 0
  /\ data' = data - 1
  /\ UNCHANGED <<outqueue, toFlush, held, current, fec, restarts>>

(* An FEC block is sent, or dropped when the queue and the encoder's output *)
(* together exceed the queue's size; size() reads the queue unlocked while  *)
(* tun_raw_thread pushes, so that either may happen.                        *)
SendOrDropFec ==
  /\ data = 0
  /\ fec > 0
  /\ fec' = fec - 1
  /\ UNCHANGED <<outqueue, toFlush, held, current, data, restarts>>

Drained ==
  /\ ~Idle
  /\ data = 0
  /\ fec = 0
  /\ current' = NoLink
  /\ UNCHANGED <<outqueue, toFlush, held, data, fec, restarts>>

Tun == TunTimeout \/ (\E l \in Links : TunPacket(l) \/ FlushLink(l))

Send == PopNothing \/ PopFlush \/ PopPacket \/ SendData \/ SendOrDropFec \/ Drained

Next == Tun \/ Send \/ MainPush

(* Both threads run; the device may stay busy for ever.                     *)
Spec == Init /\ [][Next]_vars /\ WF_vars(Tun) /\ WF_vars(Send)

-----------------------------------------------------------------------------
TypeOK ==
  /\ outqueue \in Seq(Queued) /\ Len(outqueue) <= MaxQueue
  /\ toFlush \subseteq Links
  /\ held \in [Links -> Nat]
  /\ current \in Links \cup {NoLink}
  /\ data \in Nat
  /\ fec \in Nat
  /\ restarts \in 0..MaxRestarts

(* Between two messages nothing is left in the output of an encoder, and no *)
(* encoder holds a full group: what an encoder keeps back can only be a     *)
(* partial group waiting for packets or for a flush.                        *)
NothingLeftBehind ==
  /\ Idle => data = 0 /\ fec = 0
  /\ \A l \in Links : held[l] > 0 => Coded(l) /\ held[l] < NumBlocks[l]

(* A timeout that leaves room for a flush of every link.                    *)
RoomyTimeout == Len(outqueue) + Cardinality(Links) <= MaxQueue /\ TunTimeout

(* If the device is quiet again and again while the queue has room, blocks  *)
(* never stay in an encoder for ever: the flush reaches it although the     *)
(* look at is_flushed() races with the encoder and full queues drop         *)
(* flushes.                                                                 *)
FlushedWhenQuiet ==
  []<><<RoomyTimeout>>_vars => \A l \in Links : held[l] > 0 ~> held[l] = 0

=============================================================================
