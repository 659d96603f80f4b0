------------------------------ MODULE W5100Sock ------------------------------
(***************************************************************************)
(* w5100.c: w5100_sock_rw() and w5100_drain() on one buffer of a socket,   *)
(* access by access, against a chip that fills a receive buffer and sends  *)
(* from a transmit buffer at any time.                                     *)
(*                                                                         *)
(* w5100_sock_rw() is one procedure for both directions, and so it is      *)
(* here: `dir` is its argument `write`.  A behaviour follows one buffer;   *)
(* the two buffers of a socket share nothing.  For a receive buffer the    *)
(* size registers are Sn_RX_RSR and the pointer is Sn_RX_RD, for a         *)
(* transmit buffer they are Sn_TX_FSR and Sn_TX_WR.                        *)
(*                                                                         *)
(* The chip is external: it takes over the pointer at the command RECV or  *)
(* SEND, at once, and its memory forgets the bytes that have left.         *)
(***************************************************************************)
EXTENDS Naturals, Sequences

CONSTANTS BYTE,    \* 256: the values of a byte
          PAGES,   \* 8: a buffer has PAGES * BYTE bytes (2 KB)
          HIGHS,   \* 256: the values of the high byte of a pointer
          NoByte   \* what the memory holds where no byte is waiting

ASSUME SockAssumption ==
    /\ BYTE \in Nat \ {0, 1}
    /\ PAGES \in Nat \ {0}
    /\ HIGHS \in Nat /\ HIGHS > PAGES /\ HIGHS % PAGES = 0
    /\ NoByte \notin Nat

RING == PAGES * BYTE
WRAP == HIGHS * BYTE

VARIABLES dir,      \* "read" or "write": which of the two buffers
          mem,      \* its memory
          ptr,      \* Sn_RX_RD or Sn_TX_WR, a register for each byte
          latched,  \* the pointer as the chip took it over at RECV or SEND
          net,      \* the chip's own pointer: bytes received, or bytes sent
          out,      \* history: the bytes that left the buffer last
          pc,       \* where w5100.c or its caller stands
          req,      \* the argument len
          low,      \* free_size_l
          n, len,   \* bytes_read, and what is left of it in the loop
          addr,     \* addr_h and addr_l
          buf,      \* *data: the bytes read so far, or the bytes to write
          high      \* w5100_drain(): the high byte of read_sz

chipVars == << dir, mem, ptr, latched, net, out >>
callVars == << req, low, n, len, addr, buf, high >>

Pointer == [h : 0 .. (HIGHS - 1), l : 0 .. (BYTE - 1)]
Value(p) == p.h * BYTE + p.l
PointerOf(x) == [h |-> (x % WRAP) \div BYTE, l |-> x % BYTE]
-----------------------------------------------------------------------------
(* The chip.  A queue of bytes lies between its two pointers. *)

First == IF dir = "read" THEN latched ELSE net
Last == IF dir = "read" THEN net ELSE latched
Distance(a, b) == (b + WRAP - a) % WRAP
Used == Distance(First, Last)

(* Sn_RX_RSR and Sn_TX_FSR. *)
Size == IF dir = "read" THEN Used ELSE RING - Used

Waiting == [i \in 1 .. Used |-> mem[(First + i - 1) % RING]]

(* The memory without the k oldest bytes. *)
Without(k) ==
    [c \in 0 .. (RING - 1) |->
        IF \E i \in 0 .. (k - 1) : c = (First + i) % RING THEN NoByte ELSE mem[c]]

(* A byte of the peer arrives.  It is named by its place in the stream. *)
Arrive ==
    /\ dir = "read"
    /\ Used < RING
    /\ mem' = [mem EXCEPT ![net % RING] = net]
    /\ net' = (net + 1) % WRAP
    /\ UNCHANGED << dir, ptr, latched, out >>

(* The oldest byte is sent and acknowledged. *)
Sent ==
    /\ dir = "write"
    /\ Used > 0
    /\ out' = << mem[net % RING] >>
    /\ mem' = Without(1)
    /\ net' = (net + 1) % WRAP
    /\ UNCHANGED << dir, ptr, latched >>

(* RECV and SEND with the pointer p. *)
Command(p) ==
    /\ ptr' = p
    /\ latched' = Value(p)
    /\ mem' = IF dir = "read" THEN Without(Distance(latched, Value(p))) ELSE mem
    /\ UNCHANGED << dir, net >>

(* The buffer of a new connection is empty. *)
Emptied ==
    /\ net' = IF dir = "read" THEN latched ELSE net
    /\ latched' = net'
    /\ ptr' = PointerOf(net')
    /\ mem' = [c \in 0 .. (RING - 1) |-> NoByte]
    /\ UNCHANGED << dir, out >>
-----------------------------------------------------------------------------
(* w5100_sock_rw(), entered at "low" with req and, for a write, buf.  It   *)
(* returns at "ret" with n.                                                *)

(* The locals that end with a call. *)
Forget ==
    /\ low' = 0
    /\ addr' = [h |-> 0, l |-> 0]
    /\ buf' = << >>
    /\ high' = 0

Enter(k, data) ==
    /\ req' = k
    /\ buf' = data
    /\ pc' = "low"

(* k bytes will be copied; with none the call returns. *)
Take(k) ==
    /\ n' = k
    /\ len' = k
    /\ pc' = IF k = 0 THEN "ret" ELSE "ptr"

ReadLow ==
    /\ pc = "low"
    /\ low' = Size % BYTE
    /\ IF req > Size % BYTE
         THEN pc' = "high" /\ UNCHANGED << n, len >>
         ELSE Take(req)
    /\ UNCHANGED << chipVars, req, addr, buf, high >>

(* Mutant: a high byte of one is taken for none. *)
ReadHighOffByOne ==
    /\ pc = "high"
    /\ Take(IF Size \div BYTE <= 1 THEN low ELSE req)
    /\ UNCHANGED << chipVars, req, low, addr, buf, high >>

ReadHigh ==
    /\ pc = "high"
    /\ Take(IF Size \div BYTE = 0 THEN low ELSE req)
    /\ UNCHANGED << chipVars, req, low, addr, buf, high >>

(* The two registers of the pointer, which only w5100.c changes. *)
ReadPtr ==
    /\ pc = "ptr"
    /\ addr' = ptr
    /\ pc' = "copy"
    /\ UNCHANGED << chipVars, req, low, n, len, buf, high >>

Cell(a) == (a.h % PAGES) * BYTE + a.l

(* Mutant: the high byte does not wrap. *)
AdvancedWide(a) ==
    [l |-> (a.l + 1) % BYTE,
     h |-> IF a.l = BYTE - 1 THEN a.h + 1 ELSE a.h]

(* The address of the next byte: addr_l carries into addr_h. *)
Advanced(a) ==
    [l |-> (a.l + 1) % BYTE,
     h |-> IF a.l = BYTE - 1 THEN (a.h + 1) % HIGHS ELSE a.h]

CopyByte ==
    /\ pc = "copy"
    /\ len > 0
    /\ len' = len - 1
    /\ addr' = Advanced(addr)
    /\ IF dir = "read"
         THEN buf' = Append(buf, mem[Cell(addr)]) /\ UNCHANGED mem
         ELSE mem' = [mem EXCEPT ![Cell(addr)] = buf[n - len + 1]] /\ UNCHANGED buf
    /\ UNCHANGED << dir, ptr, latched, net, out, pc, req, low, n, high >>

(* The pointer is written back and the command given.  Nothing but the     *)
(* command makes the chip look at the pointer, so this is one step.        *)
Commit ==
    /\ pc = "copy"
    /\ len = 0
    /\ Command(addr)
    /\ out' = IF dir = "read" THEN buf ELSE out
    /\ Forget
    /\ pc' = "ret"
    /\ UNCHANGED << req, n, len >>

Rw == ReadLow \/ ReadHigh \/ ReadPtr \/ CopyByte \/ Commit
-----------------------------------------------------------------------------
(* w5100_drain(), entered at "drain"; it returns at "drained".  C leaves   *)
(* open which operand of | is called first; gcc calls the left one, the    *)
(* high byte.                                                              *)

DrainPtr ==
    /\ pc = "drain"
    /\ addr' = ptr
    /\ pc' = "drain_high"
    /\ UNCHANGED << chipVars, req, low, n, len, buf, high >>

DrainHigh ==
    /\ pc = "drain_high"
    /\ high' = Size \div BYTE
    /\ pc' = "drain_low"
    /\ UNCHANGED << chipVars, req, low, n, len, addr, buf >>

DrainLow ==
    /\ pc = "drain_low"
    /\ low' = Size % BYTE
    /\ pc' = "drain_commit"
    /\ UNCHANGED << chipVars, req, n, len, addr, buf, high >>

(* Mutant: the right operand is called first: low byte, then high byte. *)
DrainCommitLowFirst ==
    /\ pc = "drain_commit"
    /\ Command(PointerOf(Value(addr) + (Size \div BYTE) * BYTE + low))
    /\ Forget
    /\ pc' = "drained"
    /\ UNCHANGED << req, n, len, out >>

DrainCommit ==
    /\ pc = "drain_commit"
    /\ Command(PointerOf(Value(addr) + high * BYTE + low))
    /\ Forget
    /\ pc' = "drained"
    /\ UNCHANGED << req, n, len, out >>

Drain == DrainPtr \/ DrainHigh \/ DrainLow \/ DrainCommit
-----------------------------------------------------------------------------
(* Whatever the chip does between two accesses, the buffer is a queue of   *)
(* bytes: w5100_sock_rw() gets the oldest bytes in order or adds the first *)
(* of its data behind the others, and w5100_drain() drops nothing that is  *)
(* not there.  What is offered is the next byte of the peer, or *data.     *)
Offered == IF dir = "read" THEN << net >> ELSE buf
Queue == INSTANCE ByteQueue WITH
            Capacity <- RING, queue <- Waiting, offered <- Offered
=============================================================================
