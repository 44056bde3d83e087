-------------------------------- MODULE Http ---------------------------------
(***************************************************************************)
(* How five components of the roadmap read an HTTP request, line by line,  *)
(* and build a response:                                                   *)
(*   web    web_server (04-stage4/web-server)                              *)
(*   app    web_framework (05-stage5/web-framework), request line only     *)
(*   http   http (03-advanced/http-parser)                                 *)
(*   mini   mini_http (41-stage41/mini-http-framework)                     *)
(*   tiny   tiny_http_server (02-intermediate/tiny-http-server)            *)
(* They get the same text.  A line is a record of what they tell apart: the*)
(* words of the request line, the spaces after the colon of a header, the  *)
(* case of its name, a line without colon, the empty line.  All of them    *)
(* take a final carriage return off.                                       *)
(***************************************************************************)
EXTENDS Naturals, Sequences, SequencesExt, Functions

CONSTANTS Methods, Paths,
          Values,    \* values of headers that are not empty
          MaxLines,  \* bound: lines of a request
          MaxRoutes, MaxUses  \* bounds: routes registered, middlewares used

VARIABLES
  obj,   \* what each parser has read so far; the response; the
         \* tables; or the pipeline and the request it is in
  abs    \* history: the lines; the bodies set; the registrations;
         \* or the middlewares that ran

Parsers == {"web", "app", "http", "mini", "tiny"}
Nothing == "nothing"
Lower(name) == IF name = "Name" THEN "name" ELSE name

Starts == [kind : {"start"}, words : 1..3, method : Methods, path : Paths, http : BOOLEAN]
Fields == [kind : {"field"}, name : {"Name", "name", "other"}, spaces : 0..2, value : Values \union {Nothing}]
Texts == [kind : {"blank", "text"}]

\* A value as it was stored: spaces kept before it, or its first character lost.
Kept(l, pad, lost) == [value |-> l.value, pad |-> pad, lost |-> lost]
Stored(headers, name, v) == [n \in DOMAIN headers \union {name} |-> IF n = name THEN v ELSE headers[n]]

Fresh == [at |-> "start", method |-> Nothing, path |-> Nothing, headers |-> [n \in {} |-> Nothing], body |-> 0]
ParserInit == obj = [p \in Parsers |-> Fresh] /\ abs = <<>>
-----------------------------------------------------------------------------
Reads(s, l) == [s EXCEPT !.at = "headers", !.method = l.method, !.path = l.path]
Fails(s) == [s EXCEPT !.at = "failed"]

webStart(s, l) == IF l.words = 3 THEN Reads(s, l) ELSE Fails(s)
httpStart(s, l) == IF l.words = 3 THEN Reads(s, l) ELSE Fails(s)
tinyStart(s, l) == IF l.words = 3 /\ l.http THEN Reads(s, l) ELSE Fails(s)
\* Words that are missing are left as they were.
appStart(s, l) == [s EXCEPT !.at = "done", !.method = l.method, !.path = IF l.words > 1 THEN l.path ELSE @]
miniStart(s, l) ==
  IF l.words = 3 THEN Reads(s, l)
  ELSE [s EXCEPT !.at = "headers", !.method = "GET", !.path = "/"]

OneLess(n) == IF n = 0 THEN 0 ELSE n - 1
webField(s, l) == [s EXCEPT !.headers = Stored(@, l.name, Kept(l, OneLess(l.spaces), FALSE))]
httpField(s, l) == [s EXCEPT !.headers = Stored(@, Lower(l.name), Kept(l, 0, FALSE))]
tinyField(s, l) == [s EXCEPT !.headers = Stored(@, l.name, Kept(l, 0, FALSE))]
\* substr(colon + 2) takes a space for granted: it throws at the end of a line.
miniField(s, l) ==
  IF l.spaces = 0 /\ l.value = Nothing THEN [s EXCEPT !.at = "threw"]
  ELSE [s EXCEPT !.headers = Stored(@, l.name, Kept(l, OneLess(l.spaces), l.spaces = 0))]

Field(p, s, l) ==
  CASE p = "web" -> webField(s, l) [] p = "http" -> httpField(s, l)
    [] p = "mini" -> miniField(s, l) [] OTHER -> tinyField(s, l)
Start(p, s, l) ==
  CASE p = "web" -> webStart(s, l) [] p = "http" -> httpStart(s, l) [] p = "mini" -> miniStart(s, l)
    [] p = "app" -> appStart(s, l) [] OTHER -> tinyStart(s, l)

\* Two of them read what follows the empty line.
AfterBlank(p) == IF p \in {"http", "mini"} THEN "body" ELSE "done"

ParseLine(p, s, l) ==
  CASE s.at = "start" -> Start(p, s, l)
    [] s.at = "headers" /\ l.kind = "field" -> Field(p, s, l)
    [] s.at = "headers" /\ l.kind = "blank" -> [s EXCEPT !.at = AfterBlank(p)]
    [] s.at = "body" -> [s EXCEPT !.body = @ + 1]
    [] OTHER -> s

ParserNext ==
  /\ Len(abs) < MaxLines
  /\ \E l \in IF abs = <<>> THEN Starts ELSE Fields \union Texts :
       /\ abs' = Append(abs, l)
       /\ obj' = [p \in Parsers |-> ParseLine(p, obj[p], l)]

\* On a request as the standard has it (three words, one space after a colon, a
\* value) the four that read headers agree, but for the case of the names,
\* which one of them folds; and none of them stops before the end.
Canonical(l) ==
  CASE l.kind = "start" -> l.words = 3 /\ l.http
    [] l.kind = "field" -> l.spaces = 1 /\ l.value # Nothing
    [] OTHER -> TRUE
ParsersAgree ==
  (\A i \in DOMAIN abs : Canonical(abs[i])) =>
    /\ \A p, q \in Parsers : obj[p].method = obj[q].method /\ obj[p].path = obj[q].path
    /\ \A p, q \in {"web", "mini", "tiny"} : obj[p].headers = obj[q].headers
    /\ DOMAIN obj["http"].headers = {Lower(n) : n \in DOMAIN obj["tiny"].headers}
    /\ \A n \in DOMAIN obj["http"].headers :
         obj["http"].headers[n] \in {obj["tiny"].headers[m] : m \in {k \in DOMAIN obj["tiny"].headers : Lower(k) = n}}
    /\ obj["http"].body = obj["mini"].body
    /\ \A p \in Parsers : obj[p].at \notin {"failed", "threw"}
-----------------------------------------------------------------------------
(* Responses: status, body, and the length the header tells, 0 if none.  A *)
(* body is represented by its length.                                      *)
Builders == {"webStatic", "app", "http", "miniStatic", "miniBody", "tiny"}
ResponseInit == obj = [b \in Builders |-> [status |-> 200, body |-> 0, length |-> 0]] /\ abs = 0

setStatus(r, code) == [r EXCEPT !.status = code]
setBody(r, n) == [r EXCEPT !.body = n, !.length = n]
\* ok(), notFound() and their kind start from nothing; mini_http's tell no length.
webStatic(code, n) == [status |-> code, body |-> n, length |-> n]
miniStatic(code, n) == [status |-> code, body |-> n, length |-> 0]

ResponseNext ==
  \E n \in 1..3, code \in {200, 400, 404, 500} :
    /\ abs' = n
    /\ obj' = [b \in Builders |->
         CASE b = "webStatic" -> webStatic(code, n)
           [] b = "miniStatic" -> miniStatic(code, n)
           [] OTHER -> setBody(setStatus(obj[b], code), n)]

\* The length that is told, if any, is that of the last body that was set.
LengthTold == \A b \in Builders : obj[b].body = abs /\ obj[b].length \in {0, abs}
-----------------------------------------------------------------------------
(***************************************************************************)
(* Route tables and middleware chains.  A request has a method and a path  *)
(* of segments; a segment of a pattern may be a parameter.  Each of the    *)
(* routers gets the same registrations:                                    *)
(*   list   web_server, web_framework and mini_http: a list of routes      *)
(*   map    tiny_http_server: a map from method and path                   *)
(*   param  http_router: a list with patterns                              *)
(* and a request is answered by a handler, named by its registration.      *)
(***************************************************************************)
Param == ":p"
Patterns == {<<"a">>, <<"b">>, <<Param>>, <<"a", Param>>}
Concrete == {<<"a">>, <<"b">>, <<"a", "b">>}
NotFound == 0
MethodNotAllowed == 405
-----------------------------------------------------------------------------
RouterInit == obj = [list |-> <<>>, map |-> [k \in {} |-> 0], param |-> <<>>] /\ abs = <<>>

\* get(), post(), put(), del(), addRoute() and add(); handler n is the n-th.
AddRoute(m, path) ==
  LET n == Len(abs) + 1
      route == [method |-> m, path |-> path, handler |-> n] IN
  /\ n <= MaxRoutes
  /\ abs' = Append(abs, route)
  /\ obj' = [list |-> Append(obj.list, route),
             map |-> [k \in DOMAIN obj.map \union {<<m, path>>} |-> IF k = <<m, path>> THEN n ELSE obj.map[k]],
             param |-> Append(obj.param, route)]

RouterNext == \E m \in Methods, path \in Patterns : AddRoute(m, path)

First(routes, hits) ==
  IF hits = {} THEN NotFound ELSE routes[CHOOSE i \in hits : \A j \in hits : i <= j].handler

listRoute(m, path) == First(obj.list, {i \in DOMAIN obj.list : obj.list[i].method = m /\ obj.list[i].path = path})

mapRoute(m, path) ==
  IF <<m, path>> \in DOMAIN obj.map THEN obj.map[<<m, path>>]
  ELSE IF \E k \in DOMAIN obj.map : k[2] = path THEN MethodNotAllowed ELSE NotFound

Matches(pattern, path) ==
  /\ Len(pattern) = Len(path)
  /\ \A i \in DOMAIN pattern : pattern[i] \in {Param, path[i]}
paramRoute(m, path) == First(obj.param, {i \in DOMAIN obj.param : obj.param[i].method = m /\ Matches(obj.param[i].path, path)})

\* For a path that is registered once at most, and as it is, the routers of
\* lists and the map give it the same handler.  A pattern is chosen only if a
\* substitution of its parameters yields the path, and then none that was
\* registered before it does; a literal route is found by all of them.
Instance(pattern) == {path \in Concrete : \E f \in [DOMAIN pattern -> {"a", "b"}] :
                        path = [i \in DOMAIN pattern |-> IF pattern[i] = Param THEN f[i] ELSE pattern[i]]}
RoutersAgree ==
  \A m \in Methods, path \in Concrete :
    LET exact == SelectSeq(abs, LAMBDA r : r.method = m /\ r.path = path)
        fits == SelectSeq(abs, LAMBDA r : r.method = m /\ path \in Instance(r.path)) IN
    /\ listRoute(m, path) = IF exact = <<>> THEN NotFound ELSE Head(exact).handler
    /\ paramRoute(m, path) = IF fits = <<>> THEN NotFound ELSE Head(fits).handler
    /\ exact # <<>> => mapRoute(m, path) = Last(exact).handler
    /\ Len(exact) = 1 => mapRoute(m, path) = listRoute(m, path)
    /\ mapRoute(m, path) = MethodNotAllowed => listRoute(m, path) = NotFound
-----------------------------------------------------------------------------
(* A chain of middlewares.  Those of web_server and web_framework answer   *)
(* true or false; those of mini_http and of middleware_pipeline (stage 29) *)
(* call next(), once, twice or not at all, and may write the response.     *)
(* The call stack holds, for each middleware that has not returned, its    *)
(* place and how many calls of next() it still makes.                      *)
Kinds == [nexts : 0..2, writes : BOOLEAN]

ChainInit ==
  /\ obj = [middlewares_ |-> <<>>, index_ |-> 0, stack |-> <<>>, status |-> "none",
            written |-> FALSE, handled |-> 0, events |-> <<>>]
  /\ abs = <<>>

use(k) ==
  /\ obj.status = "none" /\ Len(obj.middlewares_) < MaxUses
  /\ obj' = [obj EXCEPT !.middlewares_ = Append(@, k)]
  /\ UNCHANGED abs

\* next(): the middleware at index_ is called and index_ moves on.
MutCalled(o) ==
  IF o.index_ < Len(o.middlewares_)
  THEN [o EXCEPT !.stack = Append(@, [at |-> o.index_ + 1, left |-> o.middlewares_[o.index_ + 1].nexts]),
                 !.index_ = Len(o.stack) + 1]
  ELSE o
Called(o) ==
  IF o.index_ < Len(o.middlewares_)
  THEN [o EXCEPT !.stack = Append(@, [at |-> o.index_ + 1, left |-> o.middlewares_[o.index_ + 1].nexts]),
                 !.index_ = @ + 1]
  ELSE o
Entered(o) == IF Len(o.stack) > Len(obj.stack) THEN Append(abs, Last(o.stack).at) ELSE abs

\* App::handle() publishes the event and execute() calls the first one.
execute ==
  /\ obj.status = "none"
  /\ LET o == Called([obj EXCEPT !.status = "running", !.events = <<"received">>]) IN
     obj' = o /\ abs' = Entered(o)

\* The middleware on top calls next(), or writes its response and returns.
Step ==
  /\ obj.status = "running" /\ obj.stack # <<>>
  /\ LET top == Last(obj.stack) IN
     \/ /\ top.left > 0
        /\ LET o == Called([obj EXCEPT !.stack[Len(obj.stack)].left = @ - 1]) IN
           obj' = o /\ abs' = Entered(o)
     \/ /\ top.left = 0
        /\ obj' = [obj EXCEPT !.stack = Front(@), !.written = @ \/ obj.middlewares_[top.at].writes]
        /\ UNCHANGED abs

\* App::handle(): the router is asked if the response is still as it was.
handle ==
  /\ obj.status = "running" /\ obj.stack = <<>>
  /\ obj' = [obj EXCEPT !.status = "answered", !.handled = IF obj.written THEN 0 ELSE 1,
                        !.events = Append(@, "sent")]
  /\ UNCHANGED abs

\* The other kind: the first one that answers false ends the request.
handleRequest ==
  /\ obj.status = "none"
  /\ LET n == Len(obj.middlewares_)
         stop == {i \in 1..n : obj.middlewares_[i].nexts = 0} IN
     /\ abs' = [i \in 1..(IF stop = {} THEN n ELSE CHOOSE i \in stop : \A j \in stop : i <= j) |-> i]
     /\ obj' = [obj EXCEPT !.status = "returned", !.handled = IF stop = {} THEN 1 ELSE 0]

ChainNext == (\E k \in Kinds : use(k)) \/ execute \/ Step \/ handle \/ handleRequest

\* The middlewares run in the order of use(), each once at most even if one
\* before it calls next() twice, and none after one that does not let the
\* request on; the request has one answer, and both events or neither.
ChainRuns ==
  /\ abs = [i \in 1..Len(abs) |-> i]
  /\ \A i \in DOMAIN abs : i > 1 => \E j \in 1..i - 1 : obj.middlewares_[j].nexts > 0
  /\ obj.status = "answered" =>
       /\ obj.events = <<"received", "sent">>
       /\ obj.handled = 0 <=> \E i \in DOMAIN abs : obj.middlewares_[i].writes
  /\ obj.status = "returned" => (obj.handled = 1 <=> \A i \in DOMAIN obj.middlewares_ : obj.middlewares_[i].nexts > 0)
==============================================================================
