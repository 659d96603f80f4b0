----------------------------- MODULE SocketPool ------------------------------
(***************************************************************************)
(* The W5100 sockets of a listening pool, as socket.c sees them: their     *)
(* status, interrupt bits and unread data, the commands socket.c gives     *)
(* them, and what peers on the network do to them.  The chip and the peers *)
(* are not part of the program; they are modelled from the way socket.c    *)
(* and w5100.c use the registers.                                          *)
(*                                                                         *)
(* Unread data is counted in parts of a request: the two bytes that name   *)
(* the method, and the rest.  A connection whose FIN the server has sent   *)
(* and the peer has not yet acknowledged is in FIN_WAIT, or in LAST_ACK if *)
(* the peer hung up first.                                                 *)
(***************************************************************************)
EXTENDS Naturals, FiniteSets

CONSTANTS NSOCKS,   \* hardware sockets, all in the pool of the web server
          RxMax,    \* parts of requests that fit into a receive buffer
          MaxOpen,  \* connections that peers hold open at a time
          Polite    \* TRUE: peers wait for their answers and never vanish

ASSUME PoolAssumption ==
    /\ NSOCKS \in Nat \ {0}
    /\ RxMax \in Nat \ {0}
    /\ MaxOpen \in Nat
    /\ Polite \in BOOLEAN

VARIABLES sr,   \* Sn_SR: the status of a socket
          ir,   \* Sn_IR: the interrupt bits that are set
          rx,   \* Sn_RX_RSR: parts of a request received and not read
          ans   \* history: the open connection has been sent an answer

poolVars == << sr, ir, rx, ans >>

Sockets == 0 .. (NSOCKS - 1)

Statuses == {"LISTEN", "ESTABLISHED", "CLOSE_WAIT", "FIN_WAIT", "LAST_ACK", "CLOSED"}
IrBits == {"CON", "DISCON", "TIMEOUT"}

PoolTypeOK ==
    /\ sr \in [Sockets -> Statuses]
    /\ ir \in [Sockets -> SUBSET IrBits]
    /\ rx \in [Sockets -> 0 .. RxMax]
    /\ ans \in [Sockets -> BOOLEAN]

(* The registers after sock_listen() for a pool of all sockets: TCP mode,  *)
(* OPEN, interrupts cleared, LISTEN.                                       *)
Listening(SR, IR, RX, ANS) ==
    /\ SR = [s \in Sockets |-> "LISTEN"]
    /\ IR = [s \in Sockets |-> {}]
    /\ RX = [s \in Sockets |-> 0]
    /\ ANS = [s \in Sockets |-> FALSE]
-----------------------------------------------------------------------------
(* What the peers do. *)

Open == {s \in Sockets : sr[s] \notin {"LISTEN", "CLOSED"}}

Connect(s) ==
    /\ sr[s] = "LISTEN"
    /\ Cardinality(Open) < MaxOpen
    /\ sr' = [sr EXCEPT ![s] = "ESTABLISHED"]
    /\ ir' = [ir EXCEPT ![s] = @ \cup {"CON"}]
    /\ rx' = [rx EXCEPT ![s] = 0]
    /\ ans' = [ans EXCEPT ![s] = FALSE]

Send(s) ==
    /\ sr[s] = "ESTABLISHED"
    /\ rx[s] < RxMax
    /\ rx' = [rx EXCEPT ![s] = @ + 1]
    /\ UNCHANGED << sr, ir, ans >>

(* The peer's FIN: it hangs up, or it answers the FIN of the server. *)
HangUp(s) ==
    /\ sr[s] = "ESTABLISHED"
    /\ Polite => ans[s]
    /\ sr' = [sr EXCEPT ![s] = "CLOSE_WAIT"]
    /\ ir' = [ir EXCEPT ![s] = @ \cup {"DISCON"}]
    /\ UNCHANGED << rx, ans >>

FinAnswered(s) ==
    /\ sr[s] = "FIN_WAIT"
    /\ sr' = [sr EXCEPT ![s] = "CLOSED"]
    /\ ir' = [ir EXCEPT ![s] = @ \cup {"DISCON"}]
    /\ UNCHANGED << rx, ans >>

LastAck(s) ==
    /\ sr[s] = "LAST_ACK"
    /\ sr' = [sr EXCEPT ![s] = "CLOSED"]
    /\ UNCHANGED << ir, rx, ans >>

(* The peer has vanished: the chip gives up resending a FIN or an answer.  *)
GiveUp(s) ==
    /\ ~Polite
    /\ \/ sr[s] \in {"FIN_WAIT", "LAST_ACK"}
       \/ sr[s] \in {"ESTABLISHED", "CLOSE_WAIT"} /\ ans[s]
    /\ sr' = [sr EXCEPT ![s] = "CLOSED"]
    /\ ir' = [ir EXCEPT ![s] = @ \cup {"TIMEOUT"}]
    /\ UNCHANGED << rx, ans >>

(* A closing connection closes, acknowledged or given up. *)
Closes(s) == FinAnswered(s) \/ LastAck(s) \/ GiveUp(s)

Peer(s) == Connect(s) \/ Send(s) \/ HangUp(s) \/ Closes(s)
-----------------------------------------------------------------------------
(* What socket.c does.  Each of these is an access to the registers of one *)
(* socket; a peer may act between any two of them.                         *)

(* Mutant: only the DISCON bit is looked at. *)
CleanupKindNoTimeout(s) == IF "DISCON" \in ir[s] THEN {"DISCON"} ELSE {}

(* _sock_cleanup_discon() for one socket: the bit it acts on, if any; the  *)
(* bit is cleared, CON stays as it is; and the socket is put into LISTEN.  *)
CleanupKind(s) ==
    IF "DISCON" \in ir[s] THEN {"DISCON"}
    ELSE IF "TIMEOUT" \in ir[s] THEN {"TIMEOUT"} ELSE {}

(* Mutant: all interrupt bits are cleared. *)
ClearAll(s, bit) ==
    /\ ir' = [ir EXCEPT ![s] = {}]
    /\ UNCHANGED << sr, rx, ans >>

Clear(s, bit) ==
    /\ ir' = [ir EXCEPT ![s] = @ \ bit]
    /\ UNCHANGED << sr, rx, ans >>

(* LISTEN, whatever the socket has been doing. *)
Relist(s) ==
    /\ sr' = [sr EXCEPT ![s] = "LISTEN"]
    /\ rx' = [rx EXCEPT ![s] = 0]
    /\ ans' = [ans EXCEPT ![s] = FALSE]
    /\ UNCHANGED ir

(* What sock_select() looks for on a client and on a pool socket. *)
ClientEvent(s) == rx[s] > 0 \/ "DISCON" \in ir[s]
PoolEvent(s) == "CON" \in ir[s]

(* Mutant: the whole interrupt register is cleared. *)
ClearConAll(s) ==
    /\ ir' = [ir EXCEPT ![s] = {}]
    /\ UNCHANGED << sr, rx, ans >>

ClearCon(s) ==
    /\ ir' = [ir EXCEPT ![s] = @ \ {"CON"}]
    /\ UNCHANGED << sr, rx, ans >>

(* w5100_sock_rw() for a read: a part of the request leaves the buffer. *)
TakePart(s) ==
    /\ rx[s] > 0
    /\ rx' = [rx EXCEPT ![s] = @ - 1]
    /\ UNCHANGED << sr, ir, ans >>

(* _sock_write(): nothing is written unless the socket is ESTABLISHED. *)
WriteAnswer(s) ==
    /\ ans' = [ans EXCEPT ![s] = @ \/ sr[s] = "ESTABLISHED"]
    /\ UNCHANGED << sr, ir, rx >>

(* sock_close() of a hardware socket: DISCON, then drain the buffer.  A    *)
(* socket without a connection ignores DISCON.                             *)
Disconnect(s) ==
    /\ sr' = [sr EXCEPT ![s] = CASE @ = "ESTABLISHED" -> "FIN_WAIT"
                                 [] @ = "CLOSE_WAIT" -> "LAST_ACK"
                                 [] OTHER -> @]
    /\ rx' = [rx EXCEPT ![s] = 0]
    /\ UNCHANGED << ir, ans >>
=============================================================================
