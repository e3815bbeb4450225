--------------------------- MODULE CallAssembly ---------------------------
(***************************************************************************)
(* How generate_events (server/generation.py) makes events of what the     *)
(* tool parser returns: text is content, the fragments of a call are       *)
(* passed on after its start, and the call is emitted whole when text, the *)
(* next call or the end of the stream shows that it is over.               *)
(***************************************************************************)
LOCAL INSTANCE Naturals
LOCAL INSTANCE Sequences
LOCAL INSTANCE SequencesExt
LOCAL INSTANCE Text

NoCall == [index |-> 0, name |-> <<>>, json |-> <<>>, ordinal |-> 0, open |-> FALSE]

(* open_call, calls_emitted and suppress_ws; the events so far *)
Assembling == [call |-> NoCall, emitted |-> 0, ws |-> FALSE, out |-> <<>>]

(* Neighbouring pieces of one text, and of one call, are kept as one event *)
Emitted(out, ev) ==
    LET n == Len(out)
    IN  CASE n > 0 /\ ev.kind \in {"content", "reasoning"} /\ out[n].kind = ev.kind ->
                [out EXCEPT ![n].text = @ \o ev.text]
          [] n > 0 /\ ev.kind = "args" /\ out[n].kind = "args" /\ out[n].index = ev.index ->
                [out EXCEPT ![n].json = @ \o ev.json]
          [] OTHER -> Append(out, ev)

Give(g, ev) == [g EXCEPT !.out = Emitted(@, ev)]

(* _close_open_call; args are the arguments it gives the call *)
Closed(g, args) ==
    IF ~g.call.open THEN g
    ELSE [Give(g, [kind |-> "call", index |-> g.call.ordinal, name |-> g.call.name,
                   json |-> args]) EXCEPT
            !.call = NoCall, !.emitted = @ + 1, !.ws = TRUE]

(* Only markup lies between a call and the text after it *)
Content(g, text) ==
    IF text = <<>> \/ (Strip(text) = <<>> /\ g.ws) THEN g
    ELSE [Give(g, [kind |-> "content", text |-> text]) EXCEPT !.ws = @ /\ Strip(text) = <<>>]

(* Text means that the call is over *)
RouteText(g, text, args) == Content(Closed(g, args), text)

Started(g, frag) ==
    [Give(g, [kind |-> "start", index |-> g.emitted, name |-> frag.name]) EXCEPT
        !.call = [index |-> frag.index, name |-> frag.name, json |-> <<>>,
                  ordinal |-> g.emitted, open |-> TRUE]]

Extended(g, json) ==
    IF json = <<>> THEN g
    ELSE [Give(g, [kind |-> "args", index |-> g.call.ordinal, json |-> json]) EXCEPT
            !.call.json = @ \o json]

(* A fragment: with the name of another call than the open one it starts   *)
(* that call                                                               *)
RouteFrag(g, frag, named, args) ==
    LET new == named /\ (~g.call.open \/ frag.index # g.call.index)
    IN  Extended(CASE new                  -> Started(Closed(g, args), frag)
                   [] ~new /\ ~g.call.open -> Started(g, frag)
                   [] OTHER                -> g,
                 frag.json)

-----------------------------------------------------------------------------
(***************************************************************************)
(* What a client of the events may rely on                                 *)
(***************************************************************************)

Starts(out) == SelectSeq(out, LAMBDA ev : ev.kind = "start")
Calls(out)  == SelectSeq(out, LAMBDA ev : ev.kind = "call")

(* The number of the call that is open after n events, or -1 *)
OpenAfter(out, n) ==
    LET marks == SelectSeq(Upto(out, n), LAMBDA ev : ev.kind \in {"start", "call"})
    IN  IF marks # <<>> /\ marks[Len(marks)].kind = "start" THEN marks[Len(marks)].index ELSE -1

(* The arguments streamed for the call numbered k *)
Streamed(out, k) ==
    LET of == SelectSeq(out, LAMBDA ev : ev.kind = "args" /\ ev.index = k)
    IN  FlattenSeq([n \in 1..Len(of) |-> of[n].json])

(* Calls are numbered in order, one is open at a time, fragments and the   *)
(* close come while it is, and content comes while none is                 *)
Bracketed(out) ==
    /\ \A n \in 1..Len(out) :
          LET open == OpenAfter(out, n - 1)
          IN  CASE out[n].kind = "start"           -> open = -1
                [] out[n].kind \in {"args", "call"} -> open = out[n].index
                [] out[n].kind = "content"         -> open = -1
                [] OTHER                           -> TRUE
    /\ \A n \in 1..Len(Starts(out)) : Starts(out)[n].index = n - 1
    /\ \A n \in 1..Len(Calls(out))  : Calls(out)[n].index = n - 1
=============================================================================
