------------------------------- MODULE KvClient -------------------------------
(***************************************************************************)
(* The client of key_value_store (02-intermediate) and the server's side   *)
(* of its connection: execute() sends a line and takes what one recv()     *)
(* gives for the answer; the server executes each line of what one read()  *)
(* gives.  TCP keeps the order of bytes and no boundaries: requests and    *)
(* replies are runs of symbols that a call may get in pieces.              *)
(***************************************************************************)
EXTENDS Naturals, Sequences, SequencesExt, FiniteSets, FiniteSetsExt

CONSTANTS MaxRequests   \* bound: requests that are sent

VARIABLES
  obj,
  abs    \* history, or what obj is compared with
-----------------------------------------------------------------------------
(* sock_ is 0 for -1; open are the descriptors nobody has closed, conn is  *)
(* the connection of sock_.  A request i is two symbols and a line end,    *)
(* its reply one and a line end.  Of this connection: intact, no read or   *)
(* recv has split or joined its lines; asked, the requests that went into  *)
(* it, the empty ones left out; seen, what the client has received.        *)
NoAnswer == [status |-> "none", got |-> <<>>]
ClientInit ==
  /\ obj \in [server : {"up", "down"}, conn : {"none"}, sock_ : {0}, open : {{}}, connected_ : {FALSE}, waiting : {FALSE},
              toServer : {<<>>}, toClient : {<<>>}, answer : {NoAnswer}]
  /\ abs = [sent |-> 0, blank |-> FALSE, intact |-> TRUE, asked |-> {}, seen |-> <<>>, losses |-> 0]

\* connect() takes a new descriptor without closing the one of a connection that was lost.
connect(o) ==
  LET fd == Min(1..(Cardinality(o.open) + 1) \ o.open) IN
  IF o.connected_ THEN o
  ELSE IF o.server = "up" THEN [o EXCEPT !.conn = "open", !.sock_ = fd, !.open = @ \union {fd}, !.connected_ = TRUE, !.toServer = <<>>, !.toClient = <<>>]
  ELSE [o EXCEPT !.conn = "none", !.sock_ = 0]
disconnect ==
  /\ ~obj.waiting
  /\ obj' = [obj EXCEPT !.conn = "none", !.open = @ \ {obj.sock_}, !.sock_ = 0, !.connected_ = FALSE]
  /\ UNCHANGED abs
Fails(o, status) == [o EXCEPT !.answer = [status |-> status, got |-> <<>>], !.waiting = FALSE]
Line(i, blank) == (IF blank THEN <<>> ELSE <<<<i, "a">>, <<i, "b">>>>) \o <<<<i, "end">>>>
executeSend(blank) ==
  LET o == connect(obj)  i == abs.sent + 1 IN
  /\ ~obj.waiting /\ abs.sent < MaxRequests
  /\ \/ /\ ~o.connected_
        /\ obj' = Fails(o, "not connected")
        /\ UNCHANGED abs
     \/ /\ o.connected_
        /\ obj' = [o EXCEPT !.waiting = TRUE, !.toServer = IF o.conn = "open" THEN @ \o Line(i, blank) ELSE @]
        /\ abs' = [abs EXCEPT !.sent = i, !.blank = blank, !.intact = @ \/ ~obj.connected_, !.seen = IF obj.connected_ THEN @ ELSE <<>>,
                     !.asked = (IF obj.connected_ THEN @ ELSE {}) \union (IF o.conn = "open" /\ ~blank THEN {i} ELSE {})]
     \/ /\ o.connected_ /\ o.conn = "closed"
        /\ obj' = Fails([o EXCEPT !.connected_ = FALSE], "send failed")
        /\ abs' = [abs EXCEPT !.losses = @ + 1]
recv(k) ==
  LET got == SubSeq(obj.toClient, 1, k) IN
  /\ obj.waiting /\ k \in DOMAIN obj.toClient
  /\ obj' = [obj EXCEPT !.waiting = FALSE, !.toClient = SubSeq(@, k + 1, Len(@)),
                        !.answer = [status |-> "reply", got |-> IF Last(got)[2] = "end" THEN Front(got) ELSE got]]
  /\ abs' = [abs EXCEPT !.intact = @ /\ k = 2 /\ Len(obj.toClient) = 2, !.seen = @ \o got]
recvFails ==
  /\ obj.waiting /\ obj.toClient = <<>> /\ obj.conn = "closed"
  /\ obj' = Fails([obj EXCEPT !.connected_ = FALSE], "recv failed")
  /\ abs' = [abs EXCEPT !.losses = @ + 1]
\* The lines of one read(), the last perhaps without its end; an empty one is passed over,
\* and what is not a whole request is executed all the same.
Executed(text) == <<<<text[1][1], IF Len(text) = 2 THEN "whole" ELSE "piece">>, <<text[1][1], "end">>>>
handleClient(k) ==
  LET chunk == SubSeq(obj.toServer, 1, k)
      ends == {i \in 1..k + 1 : i = k + 1 \/ chunk[i][2] = "end"}
      After(i) == Max({0} \union {j \in ends : j < i})
      texts == [n \in 1..Cardinality(ends) |-> LET e == SetToSortSeq(ends, <)[n] IN SubSeq(chunk, After(e) + 1, e - 1)] IN
  /\ obj.conn = "open" /\ k \in DOMAIN obj.toServer
  /\ obj' = [obj EXCEPT !.toServer = SubSeq(@, k + 1, Len(@)),
                        !.toClient = @ \o FoldLeft(LAMBDA r, t : IF t = <<>> THEN r ELSE r \o Executed(t), <<>>, texts)]
  /\ abs' = [abs EXCEPT !.intact = @ /\ \A n \in DOMAIN texts : Len(texts[n]) # 1]
stopServer == obj.server = "up" /\ obj' = [obj EXCEPT !.server = "down", !.conn = IF @ = "open" THEN "closed" ELSE @] /\ UNCHANGED abs
startServer == obj.server = "down" /\ obj' = [obj EXCEPT !.server = "up"] /\ UNCHANGED abs
ClientNext ==
  \/ \E blank \in BOOLEAN : executeSend(blank)
  \/ \E k \in 1..Len(obj.toClient) : recv(k)
  \/ \E k \in 1..Len(obj.toServer) : handleClient(k)
  \/ recvFails \/ disconnect \/ stopServer \/ startServer

\* Whatever the pieces in which lines arrive, each request of a connection is, in the
\* order of the requests, in transit, or answered once as a whole, or answered as the
\* two requests that a read() made of it, and nothing else is answered.  An answer is
\* the reply to the last request as long as no line was split or joined; afterwards the
\* client is behind by what is left over.  It waits for what nobody will send only after
\* an empty line, and holds no more descriptors besides its own than it lost connections.
RepliesAreTheirs ==
  LET answers == abs.seen \o obj.toClient
      Count(line, i, parts) == Cardinality({j \in DOMAIN line : line[j][1] = i /\ line[j][2] \in parts}) IN
  /\ obj.conn # "none" /\ obj.connected_ =>
       /\ \A i \in 1..abs.sent :
            2 * Count(answers, i, {"whole"}) + Count(answers, i, {"piece"}) + Count(obj.toServer, i, {"a", "b"}) = IF i \in abs.asked THEN 2 ELSE 0
       /\ \A i, j \in DOMAIN answers : i < j => answers[i][1] <= answers[j][1]
       /\ \A i \in DOMAIN answers, j \in DOMAIN obj.toServer : answers[i][1] <= obj.toServer[j][1]
  /\ obj.answer.status = "reply" /\ abs.intact /\ ~obj.waiting => obj.answer.got = <<<<abs.sent, "whole">>>>
  /\ obj.waiting /\ obj.toServer = <<>> /\ obj.toClient = <<>> /\ obj.conn = "open" => abs.blank
  /\ obj.connected_ => obj.sock_ \in obj.open
  /\ Cardinality(obj.open \ {obj.sock_}) <= abs.losses
-----------------------------------------------------------------------------
(* Replies as lines: serialize() in the server, parse() in the client.     *)
Statuses == {"ok", "value", "not_found", "error", "count", "bye"}
ReplyInit == obj \in [status : Statuses, data : BoundedSeq({"OK", "NOT_FOUND", "ERROR ", "c"}, 2), line : {<<>>}] /\ abs = NoAnswer
serialize(r) ==
  CASE r.status = "ok" -> <<"+", "OK">>
    [] r.status = "value" -> <<"$">> \o r.data
    [] r.status = "not_found" -> <<"-", "NOT_FOUND">>
    [] r.status = "error" -> <<"-", "ERROR ">> \o r.data
    [] r.status = "count" -> <<":">> \o r.data
    [] OTHER -> <<"+", "BYE">>
parse(line) ==
  LET content == Tail(line)  As(status, data) == [status |-> status, got |-> data] IN
  CASE line[1] = "+" -> IF content = <<"BYE">> THEN As("bye", <<>>) ELSE As("ok", IF content = <<"OK">> THEN <<>> ELSE content)
    [] line[1] = "$" -> As("value", content)
    [] line[1] = ":" -> As("count", content)
    [] OTHER -> IF content = <<"NOT_FOUND">> THEN As("not_found", <<>>)
                ELSE As("error", IF IsPrefix(<<"ERROR ">>, content) THEN Tail(content) ELSE content)
reply == obj.line = <<>> /\ obj' = [obj EXCEPT !.line = serialize(obj)] /\ UNCHANGED abs
understand == obj.line # <<>> /\ abs = NoAnswer /\ abs' = parse(obj.line) /\ UNCHANGED obj
ReplyNext == reply \/ understand
\* The client sees the status the server gave, whatever the data look like, and of two replies
\* it can tell apart exactly those that differ in the status, or in the data of a value, a count
\* or an error: an ok has none, so that EXISTS, for which the README of the store promises +1 or
\* +0, answers the same whether the key exists or not, and PING answers OK.
StatusSurvives ==
  abs # NoAnswer => /\ abs.status = obj.status
                    /\ abs.got = IF obj.status \in {"value", "count", "error"} THEN obj.data ELSE <<>>
=============================================================================
