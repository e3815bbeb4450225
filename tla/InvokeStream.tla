--------------------------- MODULE InvokeStream ---------------------------
(***************************************************************************)
(* One streamed reply with tools: the text of the model arrives in chunks  *)
(* of any size, ToolStream parses them, CallAssembly makes events          *)
(* (generate_events in server/generation.py); the same text can be parsed  *)
(* at once (generate_full).                                                *)
(***************************************************************************)
EXTENDS ToolStream, CallAssembly

CONSTANTS Pieces,    \* the pieces that texts are made of
          MaxPieces  \* bound: the pieces of a text

InvokeAssumption ==
    /\ Pieces \subseteq Seq({"<", ">", "b", "e", "f", "g", "p", "q", "w", "u", "s", "i",
                             "a", "N", Blank})
    /\ MaxPieces \in Nat

VARIABLES
    text,   \* history: what the model writes
    fed,    \* how much of it has arrived
    d,      \* the detector
    g,      \* the assembly of the events
    reason, \* the finish reason in GenDone; "none" until then
    cut     \* history: the call that the end of the stream closed, or -1

vars == <<text, fed, d, g, reason, cut>>

over == reason # "none"

-----------------------------------------------------------------------------
(* What _close_open_call gives the open call as its arguments *)
FinalArgs(h, e) ==
    IF ~h.call.open \/ ValidJson(h.call.json) THEN h.call.json
                                              ELSE Unstreamed(e, h.call.index)

(* _route_tool_text for what the detector, now e, has returned *)
RouteSegment(h, e, seg) ==
    IF seg.kind = "text" THEN RouteText(h, seg.text, FinalArgs(h, e))
    ELSE FoldLeft(LAMBDA k, f : RouteFrag(k, f, f.name # NoName, FinalArgs(k, e)), h, seg.calls)

Route(h, e, segs) == FoldLeft(LAMBDA k, seg : RouteSegment(k, e, seg), h, segs)

(* The end of the stream: the open call is closed, a call in what is held  *)
(* is recovered, and what is held and no call is content                   *)
Whole(h, call) ==
    Closed(Started(h, [index |-> h.emitted, name |-> call.name]), Dumps(call.args))

DrainedTo(h, found, residual) ==
    IF found # <<>> THEN FoldLeft(Whole, h, found) ELSE Content(h, residual)

Drained(h, e) == DrainedTo(Closed(h, FinalArgs(h, e)), Recovered(e), Residual(e))

(* A call overrides the engine's reason, a truncation overrides the call *)
FinishReason(engine, calls) == IF calls # 0 /\ engine # "length" THEN "tool_calls" ELSE engine

(* generate_full *)
FullOf(r, engine) ==
    [text |-> r.text, calls |-> r.calls, reason |-> FinishReason(engine, Len(r.calls))]
Full(t, engine) == FullOf(NonStream(t), engine)

-----------------------------------------------------------------------------
(* The next n symbols arrive *)
Deliver(r) == d' = r.d /\ g' = Route(g, r.d, r.segs)

Feed(n) ==
    /\ ~over
    /\ fed' = fed + n
    /\ Deliver(StreamEvents(d, SubSeq(text, fed + 1, fed + n)))
    /\ UNCHANGED <<text, reason, cut>>

(* The engine ends the reply, anywhere if its length is spent *)
Finish(engine) ==
    /\ ~over
    /\ engine = "length" \/ fed = Len(text)
    /\ g' = Drained(g, d)
    /\ reason' = FinishReason(engine, g'.emitted)
    /\ cut' = IF g.call.open /\ ~ValidJson(g.call.json) THEN g.call.ordinal ELSE -1
    /\ d' = [Fresh EXCEPT !.prev = d.prev, !.id = d.id]
    /\ UNCHANGED <<text, fed>>

Init ==
    /\ \E n \in 0..MaxPieces : \E t \in [1..n -> Pieces] : text = FlattenSeq(t)
    /\ fed = 0 /\ d = Fresh /\ g = Assembling /\ reason = "none" /\ cut = -1

Next ==
    \/ \E n \in 1..(Len(text) - fed) : Feed(n)
    \/ \E engine \in {"stop", "length"} : Finish(engine)

Spec == Init /\ [][Next]_vars

-----------------------------------------------------------------------------
Arrived == Upto(text, fed)
WordsOf(t) == SelectSeq(t, LAMBDA c : c = "a")

ContentOf(out) ==
    LET of == SelectSeq(out, LAMBDA ev : ev.kind = "content")
    IN  FlattenSeq([n \in 1..Len(of) |-> of[n].text])

(* The events in order, without the sizes of the pieces: the words of the  *)
(* content and, per call, its name and arguments                           *)
Essence(out) ==
    LET of == SelectSeq(out, LAMBDA ev : \/ ev.kind = "call"
                                         \/ ev.kind = "content" /\ WordsOf(ev.text) # <<>>)
    IN  [n \in 1..Len(of) |->
            IF of[n].kind = "call" THEN [name |-> of[n].name, json |-> of[n].json]
                                   ELSE [words |-> WordsOf(of[n].text)]]

(* The arguments without the spaces of json.dumps *)
Compact(json) == SelectSeq(json, LAMBDA c : c # " ")

(* The state is one the code can be in. *)
TypeOK ==
    /\ fed \in 0..Len(text)
    /\ d.mode \in {"idle", "block", "invoke", "invoke_skip", "pstr", "pbuf", "pskip"}
    /\ d.mode \in {"invoke", "pstr", "pbuf"} => Len(d.prev) = d.id + 1
    /\ reason \in {"none", "stop", "length", "tool_calls"}
    /\ cut \in -1..d.id

(* The events of a reply are brackets: calls in order, one at a time, each *)
(* started and closed once with its fragments between, no content inside   *)
(* ("Start while call still open", "close does not match open call").      *)
EventsBracketed ==
    /\ Bracketed(g.out)
    /\ over => OpenAfter(g.out, Len(g.out)) = -1

(* A call that the model finished ends with arguments that are JSON and    *)
(* are exactly what was streamed of them.                                  *)
FinishedCallsExact ==
    \A n \in 1..Len(Calls(g.out)) :
        LET call == Calls(g.out)[n]
        IN  /\ ValidJson(call.json)
            /\ Streamed(g.out, n - 1) # <<>> /\ cut # n - 1
               => call.json = Streamed(g.out, n - 1)

(* What has been sent does not depend on how the text was cut into chunks: *)
(* the words and calls that have arrived so far, in order, are those of    *)
(* the same text in one chunk.                                             *)
ClosedOut(h, e) == Essence(Closed(h, FinalArgs(h, e)).out)
WholeOut(r) == ClosedOut(Route(Assembling, r.d, r.segs), r.d)
StreamIsWhole == ~over => ClosedOut(g, d) = WholeOut(StreamEvents(Fresh, Arrived))

(* A complete text of well formed calls gives a client that streams the    *)
(* calls, and the finish reason, of one that does not.                     *)
SameCalls(full, calls) ==
    /\ reason = full.reason
    /\ Len(calls) = Len(full.calls)
    /\ \A n \in 1..Len(full.calls) :
          /\ calls[n].name = full.calls[n].name
          /\ Compact(calls[n].json) = Compact(Dumps(full.calls[n].args))

CallsAreOneShot ==
    reason \in {"stop", "tool_calls"} /\ fed = Len(text) =>
        SameCalls(Full(text, "stop"), Calls(g.out))

(* Text outside calls is never lost or repeated: a reply in which no tag   *)
(* opens a call is delivered with all its words.                           *)
PlainTextDelivered ==
    over /\ ~Has(Arrived, Open) /\ ~Has(Arrived, Invoke) => ContentOf(g.out) = Arrived

(* "Keep text after the LAST tool block: the streaming path emits it, so   *)
(* one-shot parsing must agree instead of silently dropping it."           *)
TailIsOneShot ==
    reason \in {"stop", "tool_calls"} /\ fed = Len(text)
      /\ Len(Calls(g.out)) = 1 =>
        WordsOf(ContentOf(g.out)) = WordsOf(Full(text, "stop").text)

(* "Fragments always concatenate to a prefix of the final arguments": what *)
(* a client has been sent of a call's arguments begins the arguments of    *)
(* the closed call.                                                        *)
FragmentsArePrefix ==
    \A n \in 1..Len(Calls(g.out)) : IsPrefix(Streamed(g.out, n - 1), Calls(g.out)[n].json)

(* A recovered call is one the model wrote: its name stood between         *)
(* <function= and > ("returns [] when nothing recoverable").               *)
NamesAreWritten ==
    \A n \in 1..Len(Calls(g.out)) :
        Has(Arrived, Invoke \o Calls(g.out)[n].name \o <<">">>)

=============================================================================
