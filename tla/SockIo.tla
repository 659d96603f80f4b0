-------------------------------- MODULE SockIo --------------------------------
(***************************************************************************)
(* The callers of w5100_sock_rw() and w5100_drain(): sock_read(),          *)
(* _sock_write() and sock_close() of socket.c, and what httpd.c sends in   *)
(* answer to a request: the head of the response in a few short writes,    *)
(* and then, unless the head is all (a HEAD request, an error, the answer  *)
(* of a command), a file in chunks, from program memory                    *)
(* (_httpd_handle_uri) or from the SD card (_httpd_handle_uri_mmc).        *)
(*                                                                         *)
(* Connections follow one another on one socket.  Over the receive buffer  *)
(* a connection is read from and closed; over the transmit buffer a        *)
(* response is sent.  Its bytes, those of the head first, are named by     *)
(* their offset.  Files on the card are read by pf_read(), which is        *)
(* external here: it returns fewer bytes than asked at the end of the      *)
(* file, and after a disk error.                                           *)
(***************************************************************************)
EXTENDS W5100Sock

CONSTANTS Heads,  \* lengths of the heads of the responses
          Sizes   \* lengths of the files that are sent

ASSUME SizesAssumption ==
    /\ Heads \subseteq Nat \ {0} /\ Heads # {}
    /\ Sizes \subseteq Nat /\ Sizes # {}

VARIABLES sr,    \* Sn_SR; "ENDED": CLOSE_WAIT and every later status
          task,  \* what httpd.c does: it reads, or sends the head of a
                 \* response ("head") or a file ("rom", "mmc"), or closes
          left,  \* bytes of the head or file behind the write in progress
          off,   \* bytes of the response in the writes before it
          cut    \* history: a write came out short on this connection

ioVars == << sr, task, left, off, cut >>
vars == << chipVars, callVars, pc, ioVars >>

(* sock_write() takes at most 255 bytes; reading is never asked for more.  *)
CHUNK == BYTE - 1

Smaller(a, b) == IF a < b THEN a ELSE b
Bytes(from, k) == [i \in 1 .. k |-> from + i - 1]

Pages == 0 .. (WRAP - 1)

(* Offsets in a response: as far as its head and its file go. *)
Totals == {h + s : h \in Heads, s \in Sizes}
Offsets == UNION {0 .. t : t \in Totals}

Sending == task \in {"head", "rom", "mmc"}

TypeOK ==
    /\ dir \in {"read", "write"}
    /\ mem \in [0 .. (RING - 1) -> Pages \cup Offsets \cup {NoByte}]
    /\ ptr \in Pointer /\ addr \in Pointer
    /\ latched \in Pages /\ net \in Pages
    /\ pc \in {"idle", "low", "high", "ptr", "copy", "ret", "status", "next",
               "drain", "drain_high", "drain_low", "drain_commit", "drained"}
    /\ req \in 0 .. CHUNK /\ n \in 0 .. CHUNK /\ len \in 0 .. CHUNK
    /\ low \in 0 .. CHUNK /\ high \in 0 .. PAGES
    /\ Len(out) <= CHUNK /\ Len(buf) <= CHUNK
    /\ sr \in {"ESTABLISHED", "FIN_WAIT", "ENDED"}
    /\ task \in {"none", "read", "head", "rom", "mmc", "closing"}
    /\ left \in Offsets /\ off \in Offsets
    /\ cut \in BOOLEAN

(* The chip after its reset, and the first connection. *)
Fresh(LATCHED, NET, PTR, MEM, OUT) ==
    /\ LATCHED = 0 /\ NET = 0 /\ PTR = PointerOf(0) /\ OUT = << >>
    /\ MEM = [c \in 0 .. (RING - 1) |-> NoByte]

NoCall(REQ, LOW, N, LEN, ADDR, BUF, HIGH) ==
    /\ REQ = 0 /\ LOW = 0 /\ N = 0 /\ LEN = 0 /\ HIGH = 0
    /\ ADDR = [h |-> 0, l |-> 0] /\ BUF = << >>

NoTask(PC, SR, TASK, LEFT, OFF, CUT) ==
    /\ PC = "idle" /\ SR = "ESTABLISHED" /\ TASK = "none"
    /\ LEFT = 0 /\ OFF = 0 /\ CUT = FALSE

Init ==
    /\ dir \in {"read", "write"}
    /\ Fresh(latched, net, ptr, mem, out)
    /\ NoCall(req, low, n, len, addr, buf, high)
    /\ NoTask(pc, sr, task, left, off, cut)
-----------------------------------------------------------------------------
(* sock_read(): as long as nothing was read, the status is looked at and   *)
(* the read repeated while the connection is open.                         *)

SockRead ==
    /\ pc = "idle" /\ dir = "read"
    /\ task' = "read"
    /\ \E k \in 1 .. CHUNK : Enter(k, << >>)
    /\ UNCHANGED << chipVars, low, n, len, addr, high, sr, left, off, cut >>

ReadReturns ==
    /\ pc = "ret" /\ task = "read"
    /\ pc' = IF n > 0 THEN "idle" ELSE "status"
    /\ task' = IF n > 0 THEN "none" ELSE "read"
    /\ UNCHANGED << chipVars, callVars, sr, left, off, cut >>

ReadStatus ==
    /\ pc = "status" /\ task = "read"
    /\ IF sr = "ESTABLISHED"
         THEN pc' = "low" /\ UNCHANGED task
         ELSE pc' = "idle" /\ task' = "none"
    /\ UNCHANGED << chipVars, callVars, sr, left, off, cut >>
-----------------------------------------------------------------------------
(* A response is sent.  Its head, a status line and headers, goes through  *)
(* sock_write_P() in pieces of 30 bytes at most; how it is divided is left *)
(* open.  None of the callers looks at what sock_write() returns.          *)

SendResponse ==
    /\ pc = "idle" /\ dir = "write" /\ off = 0
    /\ task' = "head"
    /\ left' \in Heads
    /\ pc' = "next"
    /\ UNCHANGED << chipVars, callVars, sr, off, cut >>

NextHeadPiece ==
    /\ pc = "next" /\ task = "head" /\ left > 0
    /\ req' \in 1 .. Smaller(left, CHUNK)
    /\ left' = left - req'
    /\ pc' = "status"
    /\ UNCHANGED << chipVars, low, n, len, addr, buf, high, sr, task, off, cut >>

(* The response ends with its head, or a file follows. *)
EndWithHead ==
    /\ pc = "next" /\ task = "head" /\ left = 0
    /\ pc' = "idle" /\ task' = "none"
    /\ UNCHANGED << chipVars, callVars, sr, left, off, cut >>

SendFile ==
    /\ pc = "next" /\ task = "head" /\ left = 0
    /\ task' \in {"rom", "mmc"}
    /\ left' \in Sizes
    /\ UNCHANGED << chipVars, callVars, pc, sr, off, cut >>

(* while (len): the next chunk, or the end. *)
NextRomChunk ==
    /\ pc = "next" /\ task = "rom"
    /\ IF left = 0
         THEN pc' = "idle" /\ task' = "none" /\ UNCHANGED << left, req >>
         ELSE /\ req' = Smaller(left, CHUNK)
              /\ left' = left - req'
              /\ pc' = "status"
              /\ UNCHANGED task
    /\ UNCHANGED << chipVars, low, n, len, addr, buf, high, sr, off, cut >>

(* pf_read(): all that is asked for, or what is left.  After a disk error  *)
(* fewer bytes or none, and the file is no longer open.                    *)
NextMmcChunk ==
    /\ pc = "next" /\ task = "mmc"
    /\ \/ /\ req' = Smaller(left, CHUNK)
          /\ left' = left - req'
       \/ /\ req' \in 0 .. (Smaller(left, CHUNK) - 1)
          /\ left' = 0
    /\ pc' = "status"
    /\ UNCHANGED << chipVars, low, n, len, addr, buf, high, sr, task, off, cut >>

(* while (read == 255), for the card. *)
ChunkDone ==
    IF task = "mmc" /\ req < CHUNK
      THEN pc' = "idle" /\ task' = "none"
      ELSE pc' = "next" /\ UNCHANGED task

(* Mutant: the status of the socket is not looked at. *)
WriteStatusNot ==
    /\ pc = "status" /\ Sending
    /\ Enter(req, Bytes(off, req))
    /\ UNCHANGED << chipVars, low, n, len, addr, high, ioVars >>

(* _sock_write(): nothing is written unless the connection is open; a      *)
(* write of no byte is repeated.                                           *)
WriteStatus ==
    /\ pc = "status" /\ Sending
    /\ IF sr = "ESTABLISHED"
         THEN Enter(req, Bytes(off, req)) /\ UNCHANGED << task, off >>
         ELSE ChunkDone /\ off' = off + req /\ UNCHANGED << req, buf >>
    /\ UNCHANGED << chipVars, low, n, len, addr, high, sr, left, cut >>

WriteReturns ==
    /\ pc = "ret" /\ Sending
    /\ IF n = 0
         THEN pc' = "status" /\ UNCHANGED << task, off, cut >>
         ELSE ChunkDone /\ off' = off + req /\ cut' = (cut \/ n < req)
    /\ UNCHANGED << chipVars, callVars, sr, left >>
-----------------------------------------------------------------------------
(* sock_close(): DISCON, and the rest of the receive buffer is drained,    *)
(* while the peer that has not yet seen our FIN goes on sending.           *)
Close ==
    /\ pc = "idle" /\ task = "none"
    /\ sr' = IF sr = "ESTABLISHED" THEN "FIN_WAIT" ELSE sr
    /\ task' = "closing"
    /\ pc' = IF dir = "read" THEN "drain" ELSE "drained"
    /\ UNCHANGED << chipVars, callVars, left, off, cut >>

(* The socket was put back into LISTEN and the next peer has connected. *)
NextConnection ==
    /\ pc = "drained"
    /\ Emptied
    /\ NoCall(req', low', n', len', addr', buf', high')
    /\ NoTask(pc', sr', task', left', off', cut')

(* The watchdog, or a power cut: w5100_init() resets the chip. *)
Restart ==
    /\ Fresh(latched', net', ptr', mem', out')
    /\ NoCall(req', low', n', len', addr', buf', high')
    /\ NoTask(pc', sr', task', left', off', cut')
    /\ UNCHANGED dir

Program ==
    \/ (Rw \/ Drain) /\ UNCHANGED ioVars
    \/ SockRead \/ ReadReturns \/ ReadStatus
    \/ SendResponse \/ NextHeadPiece \/ EndWithHead
    \/ SendFile \/ NextRomChunk \/ NextMmcChunk \/ WriteStatus \/ WriteReturns
    \/ Close \/ NextConnection
-----------------------------------------------------------------------------
(* The other end of the connection. *)

PeerSends ==
    /\ sr # "ENDED"
    /\ Arrive
    /\ UNCHANGED << callVars, pc, ioVars >>

PeerTakes ==
    /\ Sent
    /\ UNCHANGED << callVars, pc, ioVars >>

(* It hangs up, or the chip gives up waiting for its acknowledgement. *)
PeerGone ==
    /\ sr # "ENDED"
    /\ sr' = "ENDED"
    /\ UNCHANGED << chipVars, callVars, pc, task, left, off, cut >>

Peer == PeerSends \/ PeerTakes \/ PeerGone

Next == Program \/ Peer \/ Restart

(* The processor runs.  While a connection is open, bytes that wait to be  *)
(* sent are acknowledged, or the chip gives up resending them.             *)
Fairness ==
    /\ WF_vars(Program)
    /\ WF_vars(sr = "ESTABLISHED" /\ dir = "write" /\ Used > 0
                 /\ (PeerTakes \/ PeerGone))

Spec == Init /\ [][Next]_vars /\ Fairness
-----------------------------------------------------------------------------
(* Whatever the chip does between two accesses to its registers, a buffer  *)
(* is a queue of bytes (w5100.c:90-162): a read returns the oldest bytes,  *)
(* in order, none twice and none that has not arrived; a write puts its    *)
(* bytes behind the others and overwrites nothing unsent; a drain drops    *)
(* only bytes that are there.                                              *)
QueueSpec == Queue!Spec

(* No caller looks at what was really written, and a full buffer cuts a    *)
(* piece of the head or a chunk of the file short (httpd.c:55, 161, 316).  *)
(* This cannot happen to a response that fits into the buffer with its     *)
(* head: no torn or stale size makes w5100_sock_rw() write less than there *)
(* is room for.                                                            *)
FitsIsWhole == cut => off > RING

(* _sock_write() with no bytes, at the end of a file on the card whose     *)
(* length is a multiple of the chunk, or after a disk error.               *)
EmptyWrite == task = "mmc" /\ req = 0

(* A response that is being sent ends: a full buffer drains, a peer that   *)
(* has gone is noticed (socket.c:104).  The one exception is a write of no *)
(* bytes (httpd.c:228), which is repeated until the peer hangs up or the   *)
(* watchdog fires.                                                         *)
ResponseEnds == Sending ~> (~Sending \/ EmptyWrite)
=============================================================================
