------------------------ MODULE MCSessionFrontend ------------------------
(* Small instances of SessionFrontend. *)
EXTENDS SessionFrontend

CONSTANT Own   \* the token a client chooses

Req(action) == [action |-> action, name |-> 1, tok |-> None, force |-> TRUE,
                retire |-> FALSE, kids |-> <<>>, stop |-> FALSE, timed |-> FALSE]
Ask(req) == [kind |-> "request", id |-> None, req |-> req]
Refused(kind) == [kind |-> kind, id |-> None, req |-> None]
Batch(kids, stop, timed) == [Req("batch") EXCEPT !.kids = kids, !.stop = stop, !.timed = timed]

\* The first client sends an empty line or a read, then any other line; the second client changes them underneath it.
LifecycleLines ==
  << << {Refused("empty"), [kind |-> "request", id |-> 50, req |-> Req("doctor")]},
        {Refused(k) : k \in {"not_json", "bad_metadata", "bad_quit", "bad_version", "quit"}} \cup
        {Ask(Req("open")), Ask(Req("gc")), Ask(Req("unknown")), Ask(Req("list")),
         Ask([Req("close") EXCEPT !.retire = TRUE]),
         Ask([Req("close") EXCEPT !.retire = TRUE, !.force = FALSE]),
         Ask([Req("close") EXCEPT !.tok = Own]),
         Ask(Batch(<<Req("open"), Req("query")>>, TRUE, FALSE)),
         Ask(Batch(<<Req("query"), Req("close_all")>>, FALSE, TRUE)),
         Ask(Batch(<<Batch(<<Req("query"), Req("list")>>, TRUE, FALSE), Req("unknown")>>,
                   FALSE, TRUE))} >>,
     << {Ask([Req("open") EXCEPT !.tok = Own]), Ask(Req("gc"))} >> >>

\* The requests of the lines, and their children twice over: no batch is nested deeper.
Kids(some) == UNION {Range(q.kids) : q \in some}
LineRequests ==
  LET sent == {line.req : line \in {l \in AnyLine : l.kind = "request"}}
  IN sent \cup Kids(sent) \cup Kids(Kids(sent))

GcLines == [f \in FrontEnd |-> << {Ask(Req("open")), Ask(Req("gc"))} >>]
===========================================================================
