---------------------------- MODULE GenEvents ----------------------------
(***************************************************************************)
(* A streamed reply on its way to the client: what the parsers return      *)
(* becomes events (CallAssembly; generate_events in server/generation.py), *)
(* and one of three adapters formats the events for its protocol:          *)
(* stream_chat_completion_chunks (openai_api.py), anthropic_event_stream   *)
(* (anthropic_api.py), responses_stream_generator (responses_api.py).      *)
(*                                                                         *)
(* The parsers are external: they return reasoning, text and the fragments *)
(* of calls in the order in which the model writes them.  A name, a word   *)
(* and a fragment are one symbol each; the arguments are "{", parameters   *)
(* "k", "}".                                                               *)
(***************************************************************************)
EXTENDS Naturals, Integers, Sequences, SequencesExt, Text, CallAssembly

CONSTANTS Wires,        \* the protocols of the clients
          Interleaved,  \* the model may think again after a call (gpt-oss, Muse Glimmer)
          MaxSteps      \* bound: what the parsers return in one reply

GenAssumption ==
    /\ Wires \subseteq {"openai", "anthropic", "responses"}
    /\ Interleaved \in BOOLEAN
    /\ MaxSteps \in Nat

VARIABLES
    wire,    \* the protocol of this client
    g,       \* the assembly of the events
    a,       \* the adapter's state
    frames,  \* history: the frames sent to the client
    said,    \* history: what the model said, in order
    writing, \* history: the model is inside a call
    steps,   \* bound: the number of steps
    ended    \* "no", or how the stream ended

vars == <<wire, g, a, frames, said, writing, steps, ended>>

-----------------------------------------------------------------------------
(***************************************************************************)
(* Frames: a block opens, gets deltas and closes; the last frame says how  *)
(* the reply ended.  Deltas of one block in a row are kept as one.         *)
(***************************************************************************)

None == "-"

NoBlock == [kind |-> "none", data |-> <<>>, name |-> None, ordinal |-> -1]

Frame(s, f) ==
    LET n == Len(s.out)
    IN  IF /\ n > 0 /\ f.f = "delta" /\ s.out[n].f = "delta"
           /\ s.out[n].kind = f.kind /\ s.out[n].index = f.index
        THEN [s EXCEPT !.out[n].data = @ \o f.data]
        ELSE [s EXCEPT !.out = Append(@, f)]

OpenFrame(s, kind, name) ==
    Frame(s, [f |-> "open", kind |-> kind, index |-> s.index, name |-> name])

Delta(s, kind, data) ==
    IF data = <<>> THEN s
    ELSE Frame([s EXCEPT !.block.data = @ \o data],
               [f |-> "delta", kind |-> kind, index |-> s.index, data |-> data])

CloseFrame(s) ==
    Frame(s, [f |-> "close", kind |-> s.block.kind, index |-> s.index, data |-> s.block.data])

(* _stop_block, close_current *)
StopBlock(s) ==
    IF s.block.kind = "none" THEN s
    ELSE [CloseFrame(s) EXCEPT !.block = NoBlock, !.index = @ + 1]

OpenBlock(s, kind, name, ordinal) ==
    LET t == StopBlock(s)
    IN  [OpenFrame(t, kind, name) EXCEPT
            !.block = [kind |-> kind, data |-> <<>>, name |-> name, ordinal |-> ordinal]]

\* Fault: the final arguments are sent whole although part of them was streamed.
Remainder_whole(sent, final) == final

(* What of the final arguments was not streamed yet *)
Remainder(sent, final) == IF IsPrefix(sent, final) THEN From(final, Len(sent)) ELSE <<>>

(* A fragment without an open call is ignored *)
ArgsTo(s, ev) == IF s.block.kind = "tool" THEN Delta(s, "tool", ev.json) ELSE s

IsOpenCall(s, ev) == s.block.kind = "tool" /\ s.block.ordinal = ev.index

-----------------------------------------------------------------------------
(***************************************************************************)
(* anthropic_event_stream and responses_stream_generator: blocks, one at a *)
(* time                                                                    *)
(***************************************************************************)

TextTo(s, kind, text) ==
    Delta(IF s.block.kind = kind THEN s ELSE OpenBlock(s, kind, None, -1), kind, text)

(* The arguments of Responses' done item are the final ones *)
Top(s, ev, done) ==
    LET t == Delta(s, "tool", Remainder(s.block.data, ev.json))
    IN  StopBlock(IF done THEN [t EXCEPT !.block.data = ev.json] ELSE t)

(* A call that is not the open block is taken for one that never started *)
CallTo(s, ev, done) ==
    IF IsOpenCall(s, ev) THEN Top(s, ev, done)
    ELSE StopBlock(Delta(OpenBlock(s, "tool", ev.name, ev.index), "tool", ev.json))

(* The last event closes the open block *)
Ending(s) == StopBlock(s)

InBlocks(s, ev, done) ==
    CASE ev.kind = "reasoning" -> TextTo(s, "thinking", ev.text)
      [] ev.kind = "content"   -> TextTo(s, "text", ev.text)
      [] ev.kind = "start"     -> OpenBlock(s, "tool", ev.name, ev.index)
      [] ev.kind = "args"      -> ArgsTo(s, ev)
      [] ev.kind = "call"      -> CallTo(s, ev, done)
      [] ev.kind \in {"done", "error"} ->
            Frame(Ending(s), [f |-> "end", how |-> ev.kind, reason |-> ev.reason])

-----------------------------------------------------------------------------
(***************************************************************************)
(* stream_chat_completion_chunks: text and calls in one list of deltas; a  *)
(* call is known by its index and never closed                             *)
(***************************************************************************)

Loose(s, kind, text) ==
    Frame(s, [f |-> "delta", kind |-> kind, index |-> -1, data |-> text])

CallSent(s) == [s EXCEPT !.block = NoBlock, !.index = @ + 1]

InChunks(s, ev) ==
    CASE ev.kind = "reasoning" -> Loose(s, "thinking", ev.text)
      [] ev.kind = "content"   -> Loose(s, "text", ev.text)
      [] ev.kind = "start"     ->
            [OpenFrame(s, "tool", ev.name) EXCEPT
                !.block = [kind |-> "tool", data |-> <<>>, name |-> ev.name, ordinal |-> ev.index]]
      [] ev.kind = "args"      -> ArgsTo(s, ev)
      [] ev.kind = "call" /\ IsOpenCall(s, ev) ->
            CallSent(Delta(s, "tool", Remainder(s.block.data, ev.json)))
      [] ev.kind = "call" /\ ~IsOpenCall(s, ev) ->
            [Delta(OpenFrame(s, "tool", ev.name), "tool", ev.json) EXCEPT
                !.block = s.block, !.index = @ + 1]
      [] OTHER -> Frame(s, [f |-> "end", how |-> ev.kind, reason |-> ev.reason])

Format(s, ev) ==
    CASE wire = "openai"    -> InChunks(s, ev)
      [] wire = "anthropic" -> InBlocks(s, ev, FALSE)
      [] OTHER              -> InBlocks(s, ev, TRUE)

-----------------------------------------------------------------------------
(***************************************************************************)
(* One reply                                                               *)
(***************************************************************************)

(* The arguments of a call whose closing bracket has come are the streamed *)
(* ones; those of a call that was cut off are written anew                 *)
FinalArgs(h) ==
    IF ~h.call.open \/ (h.call.json # <<>> /\ Last(h.call.json) = "}") THEN h.call.json
                                                                      ELSE <<"{", "~", "}">>

(* The events of h go through the adapter *)
Send(h, extra) ==
    LET s == FoldLeft(Format, [index |-> a.index, block |-> a.block, out |-> frames], h.out \o extra)
    IN  /\ g' = [h EXCEPT !.out = <<>>]
        /\ a' = [index |-> s.index, block |-> s.block]
        /\ frames' = s.out
        /\ UNCHANGED wire

Step ==
    /\ ended = "no"
    /\ steps < MaxSteps
    /\ steps' = steps + 1
    /\ UNCHANGED ended

(* The reasoning parser returns reasoning *)
Reasoning ==
    /\ Step
    /\ ~writing
    /\ Interleaved \/ \A n \in 1..Len(said) : said[n].kind = "thinking"
    /\ said' = Append(said, [kind |-> "thinking", words |-> <<"t">>])
    /\ Send(Give(g, [kind |-> "reasoning", text |-> <<"t">>]), <<>>)
    /\ UNCHANGED writing

(* The tool parser returns text outside any call; newlines lie between     *)
(* the calls                                                               *)
PlainText(word) ==
    /\ Step
    /\ ~writing
    /\ said' = IF word = Blank THEN said ELSE Append(said, [kind |-> "text", words |-> <<word>>])
    /\ Send(RouteText(g, <<word>>, FinalArgs(g)), <<>>)
    /\ UNCHANGED writing

(* The number that the detector gives the next call *)
NextIndex == Len(SelectSeq(said, LAMBDA x : x.kind = "tool"))

CallBegins(name) ==
    /\ Step
    /\ ~writing
    /\ writing' = TRUE
    /\ said' = Append(said, [kind |-> "tool", name |-> name, words |-> <<>>, whole |-> FALSE])
    /\ Send(RouteFrag(g, [index |-> NextIndex, name |-> name, json |-> <<>>], TRUE, FinalArgs(g)),
            <<>>)

(* "{" or "{}" comes first, then parameters and "}" *)
Arguments(json) ==
    /\ Step
    /\ writing
    /\ (Last(said).words = <<>>) <=> (json[1] = "{")
    /\ LET whole == Last(json) = "}"
       IN  /\ writing' = ~whole
           /\ said' = [said EXCEPT ![Len(said)].words = @ \o json, ![Len(said)].whole = whole]
    /\ Send(RouteFrag(g, [index |-> NextIndex - 1, name |-> None, json |-> json], FALSE,
                      FinalArgs(g)), <<>>)

(* What the end of the stream adds to the events *)
Drained(h) == Closed(h, FinalArgs(h))

(* A call overrides "stop", not "length" *)
FinishReason(h, engine) == IF h.emitted # 0 /\ engine # "length" THEN "tool_calls" ELSE engine

(* The engine's last ack; it may come in the middle of a call *)
Finish(engine) ==
    /\ ended = "no"
    /\ ended' = "done"
    /\ LET h == Drained(g)
       IN  Send(h, <<[kind |-> "done", reason |-> FinishReason(h, engine)]>>)
    /\ UNCHANGED <<said, writing, steps>>

(* An ack with an error: generate_events raises, and the adapter ends the  *)
(* stream                                                                  *)
Fail ==
    /\ ended = "no"
    /\ ended' = "failed"
    /\ Send(g, <<[kind |-> "error", reason |-> "error"]>>)
    /\ UNCHANGED <<said, writing, steps>>

Init ==
    /\ wire \in Wires
    /\ g = Assembling /\ a = [index |-> 0, block |-> NoBlock] /\ frames = <<>>
    /\ said = <<>> /\ writing = FALSE /\ steps = 0 /\ ended = "no"

Next ==
    \/ Reasoning
    \/ \E word \in {"a", Blank} : PlainText(word)
    \/ \E name \in {"f", "h"} : CallBegins(name)
    \/ \E json \in {<<"{">>, <<"{", "}">>, <<"k">>, <<"}">>} : Arguments(json)
    \/ \E engine \in {"stop", "length"} : Finish(engine)
    \/ Fail

Spec == Init /\ [][Next]_vars

-----------------------------------------------------------------------------
(***************************************************************************)
(* What the client makes of the frames                                     *)
(***************************************************************************)

Of(n, f) == frames[n].f = f

(* The words in order, without those that only separate *)
Words(t) == SelectSeq(t, LAMBDA c : c # Blank)

DataOf(index, kind) ==
    LET of == SelectSeq(frames, LAMBDA x : x.f = "delta" /\ x.kind = kind /\ x.index = index)
    IN  FlattenSeq([n \in 1..Len(of) |-> of[n].data])

(* Neighbouring pieces of one kind of text are one *)
Joined(items) ==
    FoldLeft(LAMBDA acc, x :
                IF x.kind # "tool" /\ x.words = <<>> THEN acc
                ELSE IF /\ acc # <<>> /\ x.kind # "tool" /\ Last(acc).kind = x.kind
                     THEN [acc EXCEPT ![Len(acc)].words = @ \o x.words]
                     ELSE Append(acc, x),
             <<>>, items)

(* The client's reply: texts and calls in the order in which they appear *)
Item(n) ==
    IF Of(n, "open") THEN [kind |-> "tool", name |-> frames[n].name,
                           words |-> DataOf(frames[n].index, "tool")]
                     ELSE [kind |-> frames[n].kind, words |-> Words(frames[n].data)]

ClientReply ==
    LET shown == SelectSeq([n \in 1..Len(frames) |-> n],
                           LAMBDA n : \/ Of(n, "open") /\ frames[n].kind = "tool"
                                      \/ Of(n, "delta") /\ frames[n].kind # "tool")
    IN  Joined([k \in 1..Len(shown) |-> Item(shown[k])])

ModelReply ==
    Joined([n \in 1..Len(said) |->
              IF said[n].kind = "tool"
              THEN [kind |-> "tool", name |-> said[n].name, words |-> said[n].words]
              ELSE said[n]])

-----------------------------------------------------------------------------
TypeOK ==
    /\ steps \in 0..MaxSteps
    /\ a.block.kind \in {"none", "text", "thinking", "tool"}
    /\ g.out = <<>>
    /\ ended # "no" /\ wire # "openai" => a.block = NoBlock

(* When the stream is done, the client has what the model said: every word *)
(* of reasoning and content and every call with its arguments, once and in *)
(* order.  A call that was cut off has at least what was streamed of it.   *)
ClientSeesReply ==
    ended = "done" =>
        LET n == Len(ModelReply)
        IN  /\ Len(ClientReply) = n
            /\ Upto(ClientReply, n - 1) = Upto(ModelReply, n - 1)
            /\ n > 0 =>
                  /\ [ClientReply[n] EXCEPT !.words = <<>>] = [ModelReply[n] EXCEPT !.words = <<>>]
                  /\ IF writing THEN IsPrefix(ModelReply[n].words, ClientReply[n].words)
                                ELSE ModelReply[n].words = ClientReply[n].words

(* A client that is being served lags behind the model by nothing but what *)
(* closes a call: no word and no argument waits for the end.               *)
NothingDelayed ==
    ended = "no" => ClientReply = ModelReply

(* Blocks are numbered in order and one is open at a time; deltas go to    *)
(* the open block; the last frame comes once, when every block is closed.  *)
BlocksBracketed ==
    wire # "openai" =>
        \A n \in 1..Len(frames) :
            LET marks == SelectSeq(Upto(frames, n - 1), LAMBDA x : x.f \in {"open", "close"})
                open  == marks # <<>> /\ Last(marks).f = "open"
                last  == IF marks = <<>> THEN -1 ELSE Last(marks).index
            IN  CASE Of(n, "open")  -> ~open /\ frames[n].index = last + 1
                  [] Of(n, "end")   -> ~open /\ n = Len(frames)
                  [] OTHER          -> open /\ frames[n].index = last

(* Exactly one frame ends the stream, the last one; a client that is told  *)
(* "stop" was sent no call, and one that is told "tool_calls" was.         *)
EndIsHonest ==
    LET ends == SelectSeq(frames, LAMBDA x : x.f = "end")
        sent == \E k \in 1..Len(frames) : Of(k, "open") /\ frames[k].kind = "tool"
    IN  /\ Len(ends) = IF ended = "no" THEN 0 ELSE 1
        /\ ended # "no" => /\ Of(Len(frames), "end")
                           /\ Last(frames).reason = "stop" => ~sent
                           /\ Last(frames).reason = "tool_calls" => sent

(* The item that Responses closes carries the arguments that its deltas    *)
(* add up to, for every call that the model finished.                      *)
DoneIsDeltas ==
    \A n \in 1..Len(frames) :
        /\ Of(n, "close") /\ frames[n].kind = "tool"
        /\ "}" \in ToSet(frames[n].data) /\ "~" \notin ToSet(frames[n].data)
        => frames[n].data = DataOf(frames[n].index, "tool")

=============================================================================
