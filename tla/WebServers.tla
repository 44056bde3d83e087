------------------------------ MODULE WebServers ------------------------------
(***************************************************************************)
(* The accept loops of two servers and the stop() that ends them:          *)
(*   web_server::WebServer (04-stage4/web-server), a thread per client;    *)
(*   web_framework::App (05-stage5/web-framework), which serves a client   *)
(*     at a time in the loop itself.                                       *)
(* One thread calls start() (listen()), another one stop().  A client      *)
(* sends its request at any time or never.  Descriptors are numbers the    *)
(* system hands out again after close().  What is answered is modelled in  *)
(* module Http.                                                            *)
(***************************************************************************)
EXTENDS Naturals

CONSTANTS Clients,   \* each connects once at most: a bound
          Fds        \* the numbers of client sockets

VARIABLES
  obj,   \* running_, server_fd_ (published or not), clientFds_ (App: client_fd_), clientThreads_
  pc,    \* where the loop, stop() and the thread of each client are
  log    \* the sockets: descriptor of each client, those shut down, who has spoken

vars == <<obj, pc, log>>

None == 0
Init ==
  /\ obj = [running_ |-> FALSE, server_fd_ |-> FALSE, clientFds_ |-> {}, clientThreads_ |-> {}]
  /\ pc = [main |-> "raise", client |-> None, stop |-> "idle", joining |-> {},
           thread |-> [c \in Clients |-> "none"]]
  /\ log = [fd |-> [c \in Clients |-> None], shut |-> {}, listenShut |-> FALSE,
            came |-> {}, spoke |-> {}, told |-> FALSE]

Main(place) == pc' = [pc EXCEPT !.main = place]
Thread(c, place) == pc' = [pc EXCEPT !.thread[c] = place]
Lowered(c) == [log EXCEPT !.fd[c] = None, !.shut = @ \ {log.fd[c]}]
-----------------------------------------------------------------------------
(* start() and listen(), after socket(), bind() and listen().              *)
Raise == pc.main = "raise" /\ obj' = [obj EXCEPT !.running_ = TRUE] /\ Main("publish") /\ UNCHANGED log
Publish == pc.main = "publish" /\ obj' = [obj EXCEPT !.server_fd_ = TRUE] /\ Main("loop") /\ UNCHANGED log

LoopHead ==
  /\ pc.main = "loop"
  /\ Main(IF obj.running_ THEN "accept" ELSE "forget")
  /\ UNCHANGED <<obj, log>>

Accept(c) ==
  /\ pc.main = "accept" /\ ~log.listenShut /\ c \notin log.came
  /\ \E n \in Fds \ {log.fd[d] : d \in Clients} :
       log' = [log EXCEPT !.fd[c] = n, !.came = @ \union {c}]
  /\ pc' = [pc EXCEPT !.main = "accepted", !.client = c]
  /\ UNCHANGED obj

\* EINVAL from a socket that was shut down ends the loop, other errors do not.
AcceptFails ==
  /\ pc.main = "accept"
  /\ Main(IF log.listenShut THEN "forget" ELSE "loop")
  /\ UNCHANGED <<obj, log>>

Forget == pc.main = "forget" /\ obj' = [obj EXCEPT !.server_fd_ = FALSE] /\ Main("ended") /\ UNCHANGED log

Listen == Raise \/ Publish \/ LoopHead \/ Forget \/ (log.listenShut /\ AcceptFails)
-----------------------------------------------------------------------------
(* stop()                                                                  *)
\* told: start() had raised the flag, so that it must heed this stop().
StopFlag ==
  /\ pc.stop = "idle"
  /\ obj' = [obj EXCEPT !.running_ = FALSE]
  /\ pc' = [pc EXCEPT !.stop = "shut"]
  /\ log' = [log EXCEPT !.told = pc.main # "raise"]

StopShut(next) ==
  /\ pc.stop = "shut"
  /\ pc' = [pc EXCEPT !.stop = next]
  /\ log' = [log EXCEPT !.listenShut = @ \/ obj.server_fd_, !.shut = @ \union obj.clientFds_]
  /\ UNCHANGED obj

StopTake ==
  /\ pc.stop = "take"
  /\ pc' = [pc EXCEPT !.stop = IF obj.clientThreads_ = {} THEN "returned" ELSE "join",
                      !.joining = obj.clientThreads_]
  /\ obj' = [obj EXCEPT !.clientThreads_ = {}]
  /\ UNCHANGED log

StopJoin ==
  /\ pc.stop = "join" /\ \A c \in pc.joining : pc.thread[c] = "ended"
  /\ pc' = [pc EXCEPT !.stop = "take", !.joining = {}]
  /\ UNCHANGED <<obj, log>>

Speak(c) ==
  /\ c \in log.came \ log.spoke
  /\ log' = [log EXCEPT !.spoke = @ \union {c}]
  /\ UNCHANGED <<obj, pc>>

\* recv() returns: there is a request, or the socket was shut down.
Readable(c) == c \in log.spoke \/ log.fd[c] \in log.shut
-----------------------------------------------------------------------------
(* WebServer                                                               *)
Spawn ==
  /\ pc.main = "accepted"
  /\ \/ /\ obj.running_
        /\ obj' = [obj EXCEPT !.clientThreads_ = @ \union {pc.client}]
        /\ pc' = [pc EXCEPT !.main = "loop", !.thread[pc.client] = "register"]
        /\ UNCHANGED log
     \/ ~obj.running_ /\ log' = Lowered(pc.client) /\ Main("forget") /\ UNCHANGED obj

Register(c) ==
  /\ pc.thread[c] = "register"
  /\ \/ obj.running_ /\ obj' = [obj EXCEPT !.clientFds_ = @ \union {log.fd[c]}] /\ Thread(c, "recv")
     \/ ~obj.running_ /\ Thread(c, "close") /\ UNCHANGED obj
  /\ UNCHANGED log

\* The request is parsed, handled and answered, or there is none.
Receive(c) ==
  /\ pc.thread[c] = "recv" /\ Readable(c)
  /\ Thread(c, "erase")
  /\ UNCHANGED <<obj, log>>

Erase(c) ==
  /\ pc.thread[c] = "erase"
  /\ obj' = [obj EXCEPT !.clientFds_ = @ \ {log.fd[c]}]
  /\ Thread(c, "close")
  /\ UNCHANGED log

CloseClient(c) == pc.thread[c] = "close" /\ log' = Lowered(c) /\ Thread(c, "ended") /\ UNCHANGED obj

Serve(c) == Register(c) \/ Receive(c) \/ Erase(c) \/ CloseClient(c)

StopSteps == StopShut("take") \/ StopTake \/ StopJoin
WebServerNext ==
  \/ Listen \/ Spawn \/ StopSteps \/ StopFlag \/ AcceptFails
  \/ \E c \in Clients : Accept(c) \/ Speak(c) \/ Serve(c)
-----------------------------------------------------------------------------
(* App                                                                     *)
AppPublish ==
  /\ pc.main = "accepted"
  /\ obj' = [obj EXCEPT !.clientFds_ = {log.fd[pc.client]}]
  /\ Main("recv")
  /\ UNCHANGED log

AppReceive == pc.main = "recv" /\ Readable(pc.client) /\ Main("erase") /\ UNCHANGED <<obj, log>>
AppErase == pc.main = "erase" /\ obj' = [obj EXCEPT !.clientFds_ = {}] /\ Main("close") /\ UNCHANGED log
AppClose == pc.main = "close" /\ log' = Lowered(pc.client) /\ Main("loop") /\ UNCHANGED obj

AppLoop == Listen \/ AppPublish \/ AppReceive \/ AppErase \/ AppClose
AppStop == StopFlag \/ StopShut("returned")
AppNext == AppLoop \/ AppStop \/ AcceptFails \/ \E c \in Clients : Accept(c) \/ Speak(c)

\* Both threads go on while they can; no client has to say anything.
AppSpec == Init /\ [][AppNext]_vars /\ WF_vars(AppLoop) /\ WF_vars(AppStop)
-----------------------------------------------------------------------------
\* stop() shuts down open sockets only, each one a client's that is being
\* served, and no number is registered twice.
ShutsDownOwn ==
  /\ \A n \in obj.clientFds_ : \E c \in Clients : log.fd[c] = n
  /\ \A c \in Clients : pc.thread[c] = "recv" => log.fd[c] \in obj.clientFds_

\* When stop() has returned, what it leaves behind of the threads is ended.
NoThreadLeft ==
  pc.stop = "returned" /\ log.told => \A c \in Clients : pc.thread[c] \in {"none", "ended"}

\* web_framework.hpp:94 "a client that connects and says nothing cannot hold
\* the loop in recv() for ever": a stop() that lowers the flag while listen()
\* runs ends the loop.
LoopEnds == (log.told /\ pc.stop = "returned") ~> (pc.main = "ended")
=============================================================================
