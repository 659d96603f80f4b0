-------------------------------- MODULE Httpd --------------------------------
(***************************************************************************)
(* httpd_loop() of httpd.c and the calls it makes into socket.c, step by   *)
(* step against a network that moves between any two steps: sock_select(), *)
(* sock_accept(), the walk over the accepted clients, reading a request,   *)
(* answering it and closing the connection.  The watchdog of main.c resets *)
(* a program that blocks in a read or in sock_accept().                    *)
(*                                                                         *)
(* The list of clients is an array of HTTPD_MAX_CLIENTS entries.  What a   *)
(* read behind its end yields is unknown; a write behind its end destroys  *)
(* other variables, and the model stops there ("overrun").                 *)
(***************************************************************************)
EXTENDS SocketPool

CONSTANTS HTTPD_MAX_CLIENTS,  \* 4: entries of _clients
          SELECT_TIMEOUT      \* 0x7F: rounds of sock_select() after the first

ASSUME HttpdAssumption ==
    /\ HTTPD_MAX_CLIENTS \in Nat \ {0}
    /\ SELECT_TIMEOUT \in Nat

VARIABLES pc,         \* the step of httpd_loop() that comes next
          n,          \* the socket that a scan of socket.c looks at
          bit,        \* _sock_cleanup_discon(): the bit of sockint to act on
          timeout,    \* rounds that sock_select() has left
          ready,      \* the result of sock_select()
          fdset,      \* _fdset without the bits of the listening socket
          clients,    \* _clients
          connected,  \* _connected_clients
          i,          \* the index n of the walk in httpd_loop()
          method,     \* the request has a valid method
          moved       \* history: the socket being served has a connection
                      \*   that began after the method was read from it

ramVars == << n, bit, timeout, ready, fdset, clients, connected, i, method >>
vars == << poolVars, pc, ramVars, moved >>

NoSock == NSOCKS + 1         \* an fd that is no hardware socket
Listener == NSOCKS           \* the bits of the listening socket in ready
fd == clients[i]

Steps == { "cleanup", "cleanupClear", "cleanupListen", "poll", "pollPool",
           "acceptCleanup", "acceptClear", "acceptListen", "acceptScan", "add", "walk", "readMethod", "methodStatus", "readUri", "uriStatus",
           "respond", "close", "overrun" }

TypeOK ==
    /\ PoolTypeOK
    /\ pc \in Steps
    /\ n \in Sockets
    /\ bit \in {{}, {"DISCON"}, {"TIMEOUT"}}
    /\ timeout \in 0 .. SELECT_TIMEOUT
    /\ ready \subseteq Sockets \cup {Listener}
    /\ fdset \subseteq Sockets
    /\ clients \in [0 .. (HTTPD_MAX_CLIENTS - 1) -> Sockets \cup {NoSock}]
    /\ connected \in 0 .. HTTPD_MAX_CLIENTS
    /\ i \in 0 .. HTTPD_MAX_CLIENTS
    /\ method \in BOOLEAN
    /\ moved \in BOOLEAN

(* After main()'s initialisation: the pool listens (httpd_init()), and the *)
(* C runtime has zeroed the static variables.                              *)
NoClients(FDSET, CLIENTS, CONNECTED) ==
    /\ FDSET = {}
    /\ CLIENTS = [k \in 0 .. (HTTPD_MAX_CLIENTS - 1) |-> 0]
    /\ CONNECTED = 0

Init ==
    /\ Listening(sr, ir, rx, ans)
    /\ NoClients(fdset, clients, connected)
    /\ pc = "cleanup" /\ n = 0 /\ bit = {} /\ timeout = 0 /\ ready = {} /\ i = 0
    /\ method = FALSE /\ moved = FALSE
-----------------------------------------------------------------------------
(* _sock_cleanup_discon(), from sock_select() or from sock_accept(): for    *)
(* each socket the interrupt register is read; if the connection is over,  *)
(* the bit that says so is cleared, and LISTEN given.  Then comes `next`.  *)

CleanupRead(from, clear, next) ==
    /\ pc = from
    /\ bit' = CleanupKind(n)
    /\ IF bit' = {}
         THEN next
         ELSE pc' = clear /\ UNCHANGED << n, timeout, ready >>
    /\ UNCHANGED << poolVars, fdset, clients, connected, i, method, moved >>

CleanupClear(from, listen) ==
    /\ pc = from
    /\ Clear(n, bit)
    /\ pc' = listen
    /\ UNCHANGED << ramVars, moved >>

CleanupListen(from, next) ==
    /\ pc = from
    /\ Relist(n)
    /\ bit' = {}
    /\ next
    /\ UNCHANGED << fdset, clients, connected, i, method, moved >>

(* sock_select(): clean up the pool, then poll clients and pool in turn    *)
(* until something is ready or the rounds run out.                         *)

SelectNext ==
    IF n + 1 < NSOCKS
      THEN n' = n + 1 /\ pc' = "cleanup" /\ UNCHANGED << timeout, ready >>
      ELSE n' = 0 /\ pc' = "poll" /\ ready' = {} /\ timeout' = SELECT_TIMEOUT

SelectCleanup ==
    \/ CleanupRead("cleanup", "cleanupClear", SelectNext)
    \/ CleanupClear("cleanupClear", "cleanupListen")
    \/ CleanupListen("cleanupListen", SelectNext)

(* Mutant: the scan goes one socket too far. *)
PollClientPastEnd ==
    /\ pc = "poll"
    /\ ready' = IF n \in fdset /\ ClientEvent(n) THEN ready \cup {n} ELSE ready
    /\ IF n < NSOCKS
         THEN n' = n + 1 /\ pc' = pc
         ELSE n' = 0 /\ pc' = "pollPool"
    /\ UNCHANGED << poolVars, bit, timeout, fdset, clients, connected, i, method, moved >>

PollClient ==
    /\ pc = "poll"
    /\ ready' = IF n \in fdset /\ ClientEvent(n) THEN ready \cup {n} ELSE ready
    /\ IF n + 1 < NSOCKS
         THEN n' = n + 1 /\ pc' = pc
         ELSE n' = 0 /\ pc' = "pollPool"
    /\ UNCHANGED << poolVars, bit, timeout, fdset, clients, connected, i, method, moved >>

(* After the last pool socket: poll again, or return what is ready.        *)
PollPool ==
    /\ pc = "pollPool"
    /\ ready' = IF PoolEvent(n) THEN ready \cup {Listener} ELSE ready
    /\ IF n + 1 < NSOCKS
         THEN n' = n + 1 /\ UNCHANGED << pc, timeout >>
         ELSE /\ n' = 0
              /\ IF ready' = {} /\ timeout > 0
                   THEN pc' = "poll" /\ timeout' = timeout - 1
                   ELSE /\ pc' = IF Listener \in ready' THEN "acceptCleanup" ELSE "walk"
                        /\ timeout' = 0
    /\ UNCHANGED << poolVars, bit, fdset, clients, connected, i, method, moved >>
-----------------------------------------------------------------------------
(* sock_accept(): clean up the pool again, then scan it, round and round,  *)
(* for a socket with a new connection.                                     *)

AcceptNext ==
    /\ IF n + 1 < NSOCKS
         THEN n' = n + 1 /\ pc' = "acceptCleanup"
         ELSE n' = 0 /\ pc' = "acceptScan"
    /\ UNCHANGED << timeout, ready >>

AcceptCleanup ==
    \/ CleanupRead("acceptCleanup", "acceptClear", AcceptNext)
    \/ CleanupClear("acceptClear", "acceptListen")
    \/ CleanupListen("acceptListen", AcceptNext)

AcceptScan ==
    /\ pc = "acceptScan"
    /\ IF PoolEvent(n)
         THEN ClearCon(n) /\ pc' = "add" /\ n' = n
         ELSE UNCHANGED << poolVars, pc >> /\ n' = (n + 1) % NSOCKS
    /\ UNCHANGED << bit, timeout, ready, fdset, clients, connected, i, method, moved >>

(* Mutant: the new client is not watched. *)
AddClientNotWatched ==
    /\ pc = "add"
    /\ IF connected < HTTPD_MAX_CLIENTS
         THEN /\ clients' = [clients EXCEPT ![connected] = n]
              /\ connected' = connected + 1
              /\ n' = 0
              /\ pc' = "walk"
         ELSE /\ pc' = "overrun"
              /\ UNCHANGED << clients, connected, n >>
    /\ UNCHANGED << poolVars, bit, timeout, ready, fdset, i, method, moved >>

(* _clients[_connected_clients++] = new_client; FD_SET(_fdset, new_client) *)
AddClient ==
    /\ pc = "add"
    /\ IF connected < HTTPD_MAX_CLIENTS
         THEN /\ clients' = [clients EXCEPT ![connected] = n]
              /\ connected' = connected + 1
              /\ fdset' = fdset \cup {n}
              /\ n' = 0
              /\ pc' = "walk"
         ELSE /\ pc' = "overrun"
              /\ UNCHANGED << clients, connected, fdset, n >>
    /\ UNCHANGED << poolVars, bit, timeout, ready, i, method, moved >>
-----------------------------------------------------------------------------
(* The walk over the clients; when it ends main() calls httpd_loop() again.*)

WalkOn ==
    /\ pc = "walk"
    /\ i < connected
    /\ IF fd \in ready
         THEN pc' = "readMethod" /\ i' = i
         ELSE pc' = "walk" /\ i' = i + 1
    /\ UNCHANGED << poolVars, n, bit, timeout, ready, fdset, clients, connected, method, moved >>

WalkDone ==
    /\ pc = "walk"
    /\ i >= connected
    /\ pc' = "cleanup"
    /\ ready' = {} /\ i' = 0
    /\ UNCHANGED << poolVars, n, bit, timeout, fdset, clients, connected, method, moved >>

(* sock_read() of the method: read what is there; if there is nothing, go  *)
(* round again for as long as the connection is ESTABLISHED.               *)
ReadMethod ==
    /\ pc = "readMethod"
    /\ IF rx[fd] > 0
         THEN /\ TakePart(fd)
              /\ method' \in BOOLEAN
              /\ moved' = FALSE
              /\ pc' = IF method' THEN "readUri" ELSE "respond"
         ELSE /\ pc' = "methodStatus"
              /\ UNCHANGED << poolVars, method, moved >>
    /\ UNCHANGED << n, bit, timeout, ready, fdset, clients, connected, i >>

MethodStatus ==
    /\ pc = "methodStatus"
    /\ IF sr[fd] = "ESTABLISHED"
         THEN pc' = "readMethod" /\ method' = method
         ELSE pc' = "respond" /\ method' = FALSE
    /\ UNCHANGED << poolVars, n, bit, timeout, ready, fdset, clients, connected, i, moved >>

(* The reads of the handler, until the end of the request or of the        *)
(* connection.                                                             *)
ReadUri ==
    /\ pc = "readUri"
    /\ IF rx[fd] > 0
         THEN TakePart(fd) /\ pc' = "respond"
         ELSE pc' = "uriStatus" /\ UNCHANGED poolVars
    /\ UNCHANGED << ramVars, moved >>

(* Mutant: the socket is cleaned up while a request is being read. *)
UriStatusCleansUp ==
    /\ pc = "uriStatus"
    /\ pc' = IF sr[fd] = "ESTABLISHED" THEN "readUri" ELSE "respond"
    /\ IF CleanupKind(fd) = {} THEN UNCHANGED poolVars ELSE Relist(fd)
    /\ UNCHANGED << ramVars, moved >>

UriStatus ==
    /\ pc = "uriStatus"
    /\ pc' = IF sr[fd] = "ESTABLISHED" THEN "readUri" ELSE "respond"
    /\ UNCHANGED << poolVars, ramVars, moved >>

Respond ==
    /\ pc = "respond"
    /\ WriteAnswer(fd)
    /\ pc' = "close"
    /\ UNCHANGED << ramVars, moved >>

(* Mutants: the descriptor stays in the set; the count stays as it is; the *)
(* connection stays open.                                                  *)
CloseKeepsSet ==
    /\ pc = "close"
    /\ Disconnect(fd)
    /\ \E last \in IF connected < HTTPD_MAX_CLIENTS
                     THEN {clients[connected]} ELSE Sockets \cup {NoSock} :
          clients' = [clients EXCEPT ![i] = last]
    /\ connected' = connected - 1
    /\ pc' = "walk"
    /\ method' = FALSE /\ moved' = FALSE
    /\ UNCHANGED << n, bit, timeout, ready, fdset, i >>

CloseKeepsCount ==
    /\ pc = "close"
    /\ Disconnect(fd)
    /\ fdset' = fdset \ {fd}
    /\ pc' = "walk"
    /\ method' = FALSE /\ moved' = FALSE
    /\ i' = i + 1
    /\ UNCHANGED << n, bit, timeout, ready, clients, connected >>

CloseLeavesOpen ==
    /\ pc = "close"
    /\ UNCHANGED poolVars
    /\ fdset' = fdset \ {fd}
    /\ \E last \in IF connected < HTTPD_MAX_CLIENTS
                     THEN {clients[connected]} ELSE Sockets \cup {NoSock} :
          clients' = [clients EXCEPT ![i] = last]
    /\ connected' = connected - 1
    /\ pc' = "walk"
    /\ method' = FALSE /\ moved' = FALSE
    /\ UNCHANGED << n, bit, timeout, ready, i >>

(* sock_close(fd); FD_CLEAR(_fdset, fd);                                   *)
(* _clients[n] = _clients[_connected_clients--]; n--; then n++ of the for. *)
(* The entry taken over lies behind the last client.                       *)
Close ==
    /\ pc = "close"
    /\ Disconnect(fd)
    /\ fdset' = fdset \ {fd}
    /\ \E last \in IF connected < HTTPD_MAX_CLIENTS
                     THEN {clients[connected]} ELSE Sockets \cup {NoSock} :
          clients' = [clients EXCEPT ![i] = last]
    /\ connected' = connected - 1
    /\ pc' = "walk"
    /\ method' = FALSE /\ moved' = FALSE
    /\ UNCHANGED << n, bit, timeout, ready, i >>
-----------------------------------------------------------------------------
Serving ==
    pc \in {"readMethod", "methodStatus", "readUri", "uriStatus", "respond", "close"}

(* Mutant: no watchdog guards the reads. *)
BlockedInAccept == pc = "acceptScan" /\ \A s \in Sockets : ~PoolEvent(s)

Blocked ==
    \/ pc \in {"readMethod", "methodStatus", "readUri", "uriStatus"}
       /\ rx[fd] = 0 /\ sr[fd] = "ESTABLISHED"
    \/ pc = "acceptScan" /\ \A s \in Sockets : ~PoolEvent(s)

(* The program starts over and w5100_init() resets the chip: when power is *)
(* cut and comes back, at any time, or by the watchdog (main.c:293, 357)   *)
(* after eight seconds without wdt_reset().                                *)
Restart ==
    /\ Listening(sr', ir', rx', ans')
    /\ NoClients(fdset', clients', connected')
    /\ pc' = "cleanup" /\ n' = 0 /\ bit' = {} /\ timeout' = 0 /\ ready' = {} /\ i' = 0
    /\ method' = FALSE /\ moved' = FALSE

WatchdogReset == Blocked /\ Restart

Server ==
    \/ SelectCleanup \/ PollClient \/ PollPool
    \/ AcceptCleanup \/ AcceptScan \/ AddClient
    \/ WalkOn \/ WalkDone \/ ReadMethod \/ MethodStatus \/ ReadUri \/ UriStatus
    \/ Respond \/ Close

(* A peer acts on a socket; history records a connection that begins there *)
(* while the socket is being served.                                       *)
PeerStep(s) ==
    /\ pc # "overrun"
    /\ Peer(s)
    /\ moved' = (moved \/ (Serving /\ s = fd /\ sr[s] = "LISTEN"))
    /\ UNCHANGED << pc, ramVars >>

Next == Server \/ Restart \/ \E s \in Sockets : PeerStep(s)

(* The processor runs, a program that blocks for long is reset, and the    *)
(* chip ends a connection it is closing after a bounded number of retries. *)
Fairness ==
    /\ WF_vars(Server)
    /\ WF_vars(WatchdogReset)
    /\ \A s \in Sockets :
          WF_vars(PeerStep(s) /\ sr[s] \in {"FIN_WAIT", "LAST_ACK"} /\ Closes(s))

Spec == Init /\ [][Next]_vars /\ Fairness

(* Peers that, once connected, send their whole request. *)
EagerPeers == \A s \in Sockets : WF_vars(PeerStep(s) /\ Send(s))

EagerSpec == Spec /\ EagerPeers
-----------------------------------------------------------------------------
(* sock_accept() blocks until some socket has a new connection, and it     *)
(* cleans up the pool before it looks.  It never blocks: the connection    *)
(* that sock_select() has seen is still flagged when the scan begins, even *)
(* if its peer has hung up and its socket listens again.                   *)
AcceptFindsConnection == pc = "acceptScan" => \E s \in Sockets : PoolEvent(s)

(* A connection that is over is flagged so that a later clean-up finds it, *)
(* or is about to get LISTEN from this one.  No other use of the interrupt *)
(* register loses the flag, and no event that comes between the clean-up's *)
(* accesses is overlooked (socket.c:82-92, 161-166), or the socket would   *)
(* be lost to the pool for ever.                                           *)
EndedIsFlagged ==
    \A s \in Sockets :
        sr[s] \in {"CLOSE_WAIT", "LAST_ACK", "CLOSED"} =>
            \/ ir[s] \cap {"DISCON", "TIMEOUT"} # {}
            \/ pc \in {"cleanupListen", "acceptListen"} /\ n = s

(* No connection is answered twice, though a descriptor can be listed      *)
(* twice and the entry that replaces a removed client is a stale one       *)
(* (httpd.c:344-360).                                                      *)
AnsweredOnce == pc = "respond" => ~(ans[fd] /\ sr[fd] = "ESTABLISHED")

(* The answer to a request goes to the connection that asked: a socket may *)
(* get a new connection while its descriptor is ready or even being served,*)
(* but never between the request and the answer (socket.c:76-95, 151-153). *)
NoCrossTalk == pc = "respond" /\ method => ~(moved /\ sr[fd] = "ESTABLISHED")

(* httpd_loop() always returns to main()'s loop, or the watchdog restarts  *)
(* the program: a silent client stops the server, but not for ever.        *)
RoundEnds == (pc # "cleanup") ~> (pc \in {"cleanup", "overrun"})

(* A socket whose connection is over listens again: the pool does not run  *)
(* dry of hardware sockets (socket.c:84-91).                               *)
Relisted ==
    \A s \in Sockets :
        (sr[s] \in {"CLOSE_WAIT", "CLOSED"}) ~> (sr[s] = "LISTEN" \/ pc = "overrun")

(* Between two rounds the list holds each watched client once: what        *)
(* httpd_loop() needs to find a ready client (httpd.c:339-358).            *)
Listed == {clients[k] : k \in 0 .. (connected - 1)}
ListMatchesSet ==
    pc = "cleanup" => Listed = fdset /\ Cardinality(fdset) = connected

(* httpd.c:355, "we always close connection": a client that has sent its   *)
(* request does not stay in the set of watched descriptors.                *)
AlwaysCloses == \A s \in Sockets : (s \in fdset /\ rx[s] > 0) ~> (s \notin fdset)

(* A connected client gets an answer (or the connection ends).             *)
RequestAnswered ==
    \A s \in Sockets : (sr[s] = "ESTABLISHED") ~> (ans[s] \/ sr[s] # "ESTABLISHED")

(* socket.c:89, "if the socket timed out, it will be in discon": a socket  *)
(* whose TIMEOUT bit is set is not in use.                                 *)
TimedOutIsOver == \A s \in Sockets : "TIMEOUT" \in ir[s] => sr[s] # "ESTABLISHED"
=============================================================================
