---------------------------- MODULE TunSendProofs ----------------------------
(***************************************************************************)
(* For any links, group sizes and queue size: the queue between            *)
(* tun_raw_thread and raw_send_thread keeps its bound, and raw_send_thread *)
(* never goes back to the queue with blocks left in the output of an       *)
(* encoder, nor leaves a full group in one.                                *)
(***************************************************************************)
EXTENDS TunSend, TLAPS

(* The inductive invariant: the second conjunct needs the first only for    *)
(* the types, the first needs the second where a packet of a link without   *)
(* coding leaves fec as it is.                                              *)
IInv == TypeOK /\ NothingLeftBehind

(* What the configuration of a link gives.                                  *)
LEMMA LinkFacts ==
  ASSUME NEW l \in Links
  PROVE  /\ NumBlocks[l] \in Nat /\ NumFecBlocks[l] \in Nat
         /\ l # NoLink
BY TunSendAssumption DEF TunSendAssumption

(* A push keeps the queue's type and bound.                                 *)
LEMMA PushedFacts ==
  ASSUME TypeOK, NEW m \in Queued
  PROVE  Pushed(m) \in Seq(Queued) /\ Len(Pushed(m)) <= MaxQueue
<1>1. MaxQueue \in Nat
  BY TunSendAssumption DEF TunSendAssumption
<1>2. CASE Len(outqueue) < MaxQueue
  <2>1. Append(outqueue, m) \in Seq(Queued) /\ Len(Append(outqueue, m)) = Len(outqueue) + 1
    BY DEF TypeOK
  <2>2. QED
    BY <1>1, <1>2, <2>1 DEF Pushed, TypeOK
<1>3. CASE ~(Len(outqueue) < MaxQueue)
  BY <1>3 DEF Pushed, TypeOK
<1>4. QED
  BY <1>2, <1>3

(* So does a pop, and what is popped names a link or nothing.               *)
LEMMA PoppedFacts ==
  ASSUME TypeOK, outqueue # <<>>
  PROVE  /\ Tail(outqueue) \in Seq(Queued) /\ Len(Tail(outqueue)) <= MaxQueue
         /\ Head(outqueue) \in Queued
<1>1. MaxQueue \in Nat
  BY TunSendAssumption DEF TunSendAssumption
<1>2. /\ Tail(outqueue) \in Seq(Queued) /\ Head(outqueue) \in Queued
      /\ Len(Tail(outqueue)) = Len(outqueue) - 1
  BY DEF TypeOK
<1>3. QED
  BY <1>1, <1>2 DEF TypeOK

(* encode_blocks() empties the encoder into its output.                     *)
LEMMA EncodeFacts ==
  ASSUME IInv, NEW l \in Links, NEW n \in Nat, Encode(l, n)
  PROVE  /\ held' \in [Links -> Nat] /\ data' \in Nat /\ fec' \in Nat
         /\ \A k \in Links : held'[k] > 0 => Coded(k) /\ held'[k] < NumBlocks[k]
<1>1. held' \in [Links -> Nat] /\ data' \in Nat
  BY DEF Encode, IInv, TypeOK
<1>2. fec' \in Nat
  BY LinkFacts DEF Encode
<1>3. \A k \in Links : held'[k] > 0 => Coded(k) /\ held'[k] < NumBlocks[k]
  BY DEF Encode, IInv, TypeOK, NothingLeftBehind
<1>4. QED
  BY <1>1, <1>2, <1>3

(* The initial states satisfy the invariant.                                *)
LEMMA InitIInv == Init => IInv
<1> SUFFICES ASSUME Init PROVE IInv
  OBVIOUS
<1>1. TypeOK
  BY TunSendAssumption DEF Init, TypeOK, TunSendAssumption
<1>2. NothingLeftBehind
  BY DEF Init, NothingLeftBehind
<1>3. QED
  BY <1>1, <1>2 DEF IInv

(* Steps of tun_raw_thread and of main().                                   *)
LEMMA TunIInv ==
  ASSUME IInv, Tun \/ MainPush
  PROVE  IInv'
<1> USE DEF IInv, sendVars
<1>1. ASSUME NEW l \in Links, TunPacket(l)
      PROVE  IInv'
  <2>1. [link |-> l, flush |-> FALSE] \in Queued
    BY DEF Queued
  <2>2. outqueue' \in Seq(Queued) /\ Len(outqueue') <= MaxQueue
    BY <1>1, <2>1, PushedFacts DEF TunPacket
  <2>3. QED
    BY <1>1, <2>2 DEF TunPacket, TypeOK, NothingLeftBehind, Idle
<1>2. CASE TunTimeout
  BY <1>2 DEF TunTimeout, TypeOK, NothingLeftBehind, Idle
<1>3. ASSUME NEW l \in Links, FlushLink(l)
      PROVE  IInv'
  <2>1. [link |-> l, flush |-> TRUE] \in Queued
    BY DEF Queued
  <2>2. outqueue' \in Seq(Queued) /\ Len(outqueue') <= MaxQueue
    BY <1>3, <2>1, PushedFacts DEF FlushLink, TypeOK
  <2>3. QED
    BY <1>3, <2>2 DEF FlushLink, TypeOK, NothingLeftBehind, Idle
<1>4. CASE MainPush
  <2>1. [link |-> NoLink, flush |-> TRUE] \in Queued
    BY DEF Queued
  <2>2. outqueue' \in Seq(Queued) /\ Len(outqueue') <= MaxQueue
    BY <1>4, <2>1, PushedFacts DEF MainPush
  <2>3. restarts' \in 0..MaxRestarts
    BY <1>4, TunSendAssumption DEF MainPush, TypeOK, TunSendAssumption
  <2>4. QED
    BY <1>4, <2>2, <2>3 DEF MainPush, TypeOK, NothingLeftBehind, Idle
<1>5. QED
  BY <1>1, <1>2, <1>3, <1>4 DEF Tun

(* Steps of raw_send_thread.                                                *)
LEMMA SendIInv ==
  ASSUME IInv, Send
  PROVE  IInv'
<1> USE DEF IInv, sendVars
<1>1. CASE PopNothing
  BY <1>1, PoppedFacts DEF PopNothing, TypeOK, NothingLeftBehind, Idle
<1>2. CASE PopFlush
  <2> DEFINE l == Head(outqueue).link
  <2>1. l \in Links /\ held[l] \in Nat
    BY <1>2 DEF PopFlush, TypeOK
  <2>2. /\ held' \in [Links -> Nat] /\ data' \in Nat /\ fec' \in Nat
        /\ \A k \in Links : held'[k] > 0 => Coded(k) /\ held'[k] < NumBlocks[k]
    BY <1>2, <2>1, EncodeFacts DEF PopFlush
  <2>3. current' \in Links /\ current' # NoLink
    BY <1>2, <2>1, LinkFacts DEF PopFlush
  <2>4. QED
    BY <1>2, <2>2, <2>3, PoppedFacts DEF PopFlush, TypeOK, NothingLeftBehind, Idle
<1>3. CASE PopPacket
  <2> DEFINE l == Head(outqueue).link
  <2>1. l \in Links /\ held[l] \in Nat
    BY <1>3 DEF PopPacket, TypeOK
  <2>2. current' \in Links /\ current' # NoLink
    BY <1>3, <2>1, LinkFacts DEF PopPacket
  <2>3. /\ held' \in [Links -> Nat] /\ data' \in Nat /\ fec' \in Nat
        /\ \A k \in Links : held'[k] > 0 => Coded(k) /\ held'[k] < NumBlocks[k]
    <3>1. CASE ~Coded(l) /\ data' = 1 /\ UNCHANGED <<held, fec>>
      BY <3>1 DEF TypeOK, NothingLeftBehind
    <3>2. CASE Coded(l) /\ GroupFull(l) /\ Encode(l, held[l] + 1)
      BY <2>1, <3>2, EncodeFacts
    <3>3. CASE /\ Coded(l) /\ ~GroupFull(l)
               /\ held' = [held EXCEPT ![l] = @ + 1]
               /\ UNCHANGED <<data, fec>>
      <4>1. held[l] < NumBlocks[l]
        BY <2>1, <3>3, LinkFacts DEF NothingLeftBehind, Coded
      <4>2. held[l] + 1 < NumBlocks[l]
        BY <2>1, <3>3, <4>1, LinkFacts DEF GroupFull
      <4>3. held' \in [Links -> Nat] /\ data' \in Nat /\ fec' \in Nat
        BY <2>1, <3>3 DEF TypeOK
      <4>4. ASSUME NEW k \in Links, held'[k] > 0
            PROVE  Coded(k) /\ held'[k] < NumBlocks[k]
        BY <2>1, <3>3, <4>2, <4>4 DEF TypeOK, NothingLeftBehind
      <4>5. QED
        BY <4>3, <4>4
    <3>4. QED
      BY <1>3, <3>1, <3>2, <3>3 DEF PopPacket
  <2>4. QED
    BY <1>3, <2>2, <2>3, PoppedFacts DEF PopPacket, TypeOK, NothingLeftBehind, Idle
<1>4. CASE SendData
  BY <1>4 DEF SendData, TypeOK, NothingLeftBehind, Idle
<1>5. CASE SendOrDropFec
  BY <1>5 DEF SendOrDropFec, TypeOK, NothingLeftBehind, Idle
<1>6. CASE Drained
  BY <1>6 DEF Drained, TypeOK, NothingLeftBehind, Idle
<1>7. QED
  BY <1>1, <1>2, <1>3, <1>4, <1>5, <1>6 DEF Send

(* Every behaviour keeps the invariant.                                     *)
LEMMA InductiveIInv == Spec => []IInv
<1>1. IInv /\ UNCHANGED vars => IInv'
  BY DEF IInv, TypeOK, NothingLeftBehind, Idle, vars, sendVars
<1>2. IInv /\ [Next]_vars => IInv'
  BY <1>1, TunIInv, SendIInv DEF Next
<1>3. QED
  BY InitIInv, <1>2, PTL DEF Spec

(* Whatever tun_raw_thread, raw_send_thread and main() do, outqueue stays   *)
(* within max_queue_size and holds messages of known links or none.         *)
THEOREM TunTypeOK == Spec => []TypeOK
BY InductiveIInv, PTL DEF IInv

(* For every set of links and every group size: raw_send_thread pops only   *)
(* when the output of every encoder is drained, and what an encoder keeps   *)
(* back is a partial group of a coded link.                                 *)
THEOREM NothingStays == Spec => []NothingLeftBehind
BY InductiveIInv, PTL DEF IInv

=============================================================================
