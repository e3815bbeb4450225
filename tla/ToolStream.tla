---------------------------- MODULE ToolStream ----------------------------
(***************************************************************************)
(* The tool call parser for Qwen3-Coder (server/function_call_parser.py):  *)
(* InvokeParamStreamMixin with Qwen3CoderDetector's grammar, its one-shot  *)
(* twin detect_and_parse, and FunctionCallParser around them.  A call is   *)
(*   <tool_call> <function=NAME> <parameter=KEY> VALUE </parameter> ...    *)
(* and its arguments become JSON: "{", a key, ":", a quoted or a typed     *)
(* value.  Newline is Blank; no other whitespace occurs.                   *)
(***************************************************************************)
EXTENDS Naturals, Sequences, SequencesExt, FiniteSetsExt, Text

CONSTANTS ForwardUnknown,  \* FORWARD_UNKNOWN_TOOLS: pass on a name that no tool has
          DrainLimit       \* how often a chunk is parsed again for what is left (16)

ToolAssumption == ForwardUnknown \in BOOLEAN /\ DrainLimit \in Nat \ {0}

Open     == <<"<", "b", ">">>   \* <tool_call>
Close    == <<"<", "e", ">">>   \* </tool_call>
Invoke   == <<"<", "f">>        \* <function=
Invoked  == <<"<", "g", ">">>   \* </function>
Param    == <<"<", "p">>        \* <parameter=
ParamEnd == <<"<", "q", ">">>   \* </parameter>

Tool     == <<"w">>             \* the one tool of the request
TypedKey == <<"i">>             \* its parameter that is not a string
Null     == <<"N">>             \* the text null

-----------------------------------------------------------------------------
(***************************************************************************)
(* Values and their JSON                                                   *)
(***************************************************************************)

IsKnown(name) == name = Tool \/ ForwardUnknown

(* A key the schema does not name is a string (_ps_missing_type) *)
IsString(name, key) == ~(name = Tool /\ key = TypedKey)

(* _ps_trim_leading and _ps_trim_trailing: at most one newline *)
TrimLeading(t)  == IF t # <<>> /\ t[1] = Blank THEN From(t, 1) ELSE t
TrimTrailing(t) == IF t # <<>> /\ t[Len(t)] = Blank THEN Upto(t, Len(t) - 1) ELSE t

Quoted(raw) == <<"'">> \o raw \o <<"'">>

(* _convert_param_value: null is null whatever the type *)
Converted(raw, string) == IF string /\ raw # Null THEN Quoted(raw) ELSE <<"#">> \o raw

(* A dict built from the pairs in order: a key keeps its place and takes   *)
(* its last value                                                          *)
AsDict(pairs) ==
    LET first == SelectSeq([i \in 1..Len(pairs) |-> i],
                           LAMBDA i : \A j \in 1..(i - 1) : pairs[j].key # pairs[i].key)
        last(key) == Max({i \in 1..Len(pairs) : pairs[i].key = key})
    IN  [n \in 1..Len(first) |-> pairs[last(pairs[first[n]].key)]]

(* json.dumps: with a space after each comma and colon *)
Dumps(pairs) ==
    LET dict == AsDict(pairs)
        item(n) == (IF n = 1 THEN <<>> ELSE <<",", " ">>) \o dict[n].key \o <<":", " ">> \o dict[n].value
    IN  <<"{">> \o FlattenSeq([n \in 1..Len(dict) |-> item(n)]) \o <<"}">>

(* json.loads accepts the text: an automaton over its symbols *)
JsonNext(q, c) ==
    CASE q = "start"  /\ c = "{"                   -> "first"
      [] q \in {"first", "after"} /\ c = "}"       -> "end"
      [] q = "after"  /\ c = ","                   -> "comma"
      [] q \in {"first", "comma", "key"} /\ c = ":" -> "colon"
      [] q \in {"first", "comma", "key"} /\ c \notin {"{", "}", ",", ":", "'", "#"} -> "key"
      [] q = "colon"  /\ c = "'"                   -> "string"
      [] q = "colon"  /\ c = "#"                   -> "after"
      [] q = "colon"  /\ c = " "                   -> "colon"
      [] q = "string" /\ c = "'"                   -> "after"
      [] q = "string" /\ c \notin {"{", "}", ",", ":", "'", "#"} -> "string"
      [] q = "after"  /\ c \notin {"{", "}", ",", ":", "'", "#"} -> "after"
      [] OTHER -> "bad"

ValidJson(j) == FoldLeft(JsonNext, "start", j) = "end"

-----------------------------------------------------------------------------
(***************************************************************************)
(* InvokeParamStreamMixin: the streaming detector.  One turn of its loop   *)
(* for each mode; go is FALSE where the loop breaks.                       *)
(***************************************************************************)

Fresh ==
    [buf |-> <<>>, mode |-> "idle", name |-> <<>>, key |-> <<>>, val |-> <<>>,
     started |-> FALSE, trimmed |-> FALSE, id |-> 0, prev |-> <<>>]

NoName == <<"-">>

(* The call is named, then its arguments come in fragments *)
Fragment(s, json) ==
    [s EXCEPT !.calls = @ \o (IF json = <<>> THEN <<>>
                              ELSE <<[index |-> s.id, name |-> NoName, json |-> json]>>)]

Shown(s, n) == [s EXCEPT !.text = @ \o Upto(s.buf, n), !.buf = From(s.buf, n)]
Skip(s, n, mode) == [s EXCEPT !.buf = From(s.buf, n), !.mode = mode]
Stop(s) == [s EXCEPT !.go = FALSE]

\* Fault: the beginning of a tag is thrown away with what precedes it.
Wait_drop(s, tags) == Stop([s EXCEPT !.buf = <<>>])

(* Keep only what may still grow into one of the tags *)
Wait(s, tags) == Stop([s EXCEPT !.buf = From(@, Len(@) - HeldLen(@, tags))])

(* Text, which waits for the next step once there is a call: a step        *)
(* delivers its text before its calls                                      *)
Idle(s) ==
    LET at == Find(s.buf, Open)
    IN  CASE s.calls # <<>>   -> Stop(s)
          [] s.calls = <<>> /\ at > Len(s.buf) ->
                Stop(Shown(s, Len(s.buf) - HeldLen(s.buf, {Open})))
          [] OTHER            -> Skip(Shown(s, at), Len(Open), "block")

(* prev_tool_call_arr[id] is set, with the empty slots before it *)
Slot(prev, id, pairs) ==
    [n \in 1..Max({Len(prev), id + 1}) |->
        IF n = id + 1 THEN pairs ELSE IF n <= Len(prev) THEN prev[n] ELSE <<>>]

Named(s, name) ==
    IF IsKnown(name)
    THEN [s EXCEPT !.mode = "invoke", !.name = name, !.started = FALSE,
                   !.prev = Slot(@, s.id, <<>>),
                   !.calls = Append(@, [index |-> s.id, name |-> name, json |-> <<>>])]
    ELSE [s EXCEPT !.mode = "invoke_skip", !.prev = Slot(@, s.id, <<>>)]

(* Between <tool_call> and the next <function=, or </tool_call> *)
Block(s) ==
    LET buf == s.buf
        inv == Find(buf, Invoke)
        end == Find(buf, Close)
        gt  == FindFrom(buf, <<">">>, inv + Len(Invoke))
    IN  CASE end < inv /\ end <= Len(buf) -> Skip(s, end + Len(Close), "idle")
          [] inv < end /\ inv <= Len(buf) ->
                IF gt > Len(buf) THEN Stop(s)
                ELSE Named(Skip(s, gt + 1, s.mode), Strip(SubSeq(buf, inv + Len(Invoke) + 1, gt)))
          [] OTHER -> Wait(s, {Invoke, Close})

(* </function>: the arguments are closed and the next call has an index of *)
(* its own                                                                 *)
Returned(s, end) ==
    LET t == Skip(s, end + Len(Invoked), "block")
    IN  IF s.mode = "invoke"
        THEN [Fragment(t, IF s.started THEN <<"}">> ELSE <<"{", "}">>) EXCEPT !.id = @ + 1]
        ELSE t

Lead(s) == IF s.started THEN <<",">> ELSE <<"{">>

(* <parameter=KEY>: a string begins to stream, another value is collected *)
Parameter(s, key) ==
    LET t == [s EXCEPT !.key = key, !.val = <<>>]
    IN  IF IsString(s.name, key)
        THEN [Fragment(t, Lead(s) \o key \o <<":", "'">>) EXCEPT
                !.started = TRUE, !.trimmed = FALSE, !.mode = "pstr"]
        ELSE [t EXCEPT !.mode = "pbuf"]

InInvoke(s) ==
    LET buf == s.buf
        par == Find(buf, Param)
        end == Find(buf, Invoked)
        gt  == FindFrom(buf, <<">">>, par + Len(Param))
    IN  CASE end < par /\ end <= Len(buf) -> Returned(s, end)
          [] par < end /\ par <= Len(buf) ->
                IF gt > Len(buf) THEN Stop(s)
                ELSE IF s.mode = "invoke_skip" THEN Skip(s, gt + 1, "pskip")
                ELSE Parameter(Skip(s, gt + 1, s.mode), Strip(SubSeq(buf, par + Len(Param) + 1, gt)))
          [] OTHER -> Wait(s, {Param, Invoked})

(* _update_prev: the arguments so far, as the code reads them back from    *)
(* what it has emitted                                                     *)
Known(s, value) ==
    [s EXCEPT !.prev[s.id + 1] = Append(@, [key |-> s.key, value |-> value])]

(* All of the value but newlines at its end and what may become            *)
(* </parameter>                                                            *)
Streaming(s, buf) ==
    LET out == RStrip(Upto(buf, Len(buf) - HeldLen(buf, {ParamEnd})))
    IN  [Fragment(s, out) EXCEPT !.buf = From(buf, Len(out)), !.val = @ \o out, !.go = FALSE]

\* Fault: the newline after <parameter=KEY> is part of the value.
StringValue_leading(s) ==
    LET end  == Find(s.buf, ParamEnd)
        rest == TrimTrailing(Upto(s.buf, end))
    IN  IF end > Len(s.buf) THEN Streaming(s, s.buf)
        ELSE [Known(Fragment(s, rest \o <<"'">>), Quoted(s.val \o rest)) EXCEPT
                !.buf = From(s.buf, end + Len(ParamEnd)), !.mode = "invoke"]

StringValue(s) ==
    LET buf  == IF s.trimmed THEN s.buf ELSE TrimLeading(s.buf)
        end  == Find(buf, ParamEnd)
        rest == TrimTrailing(Upto(buf, end))
        t    == [s EXCEPT !.trimmed = TRUE]
    IN  IF end > Len(buf) THEN Streaming(t, buf)
        ELSE [Known(Fragment(t, rest \o <<"'">>), Quoted(s.val \o rest)) EXCEPT
                !.buf = From(buf, end + Len(ParamEnd)), !.mode = "invoke"]

(* The whole value is held until it is closed *)
HeldValue(s) ==
    LET end   == Find(s.buf, ParamEnd)
        value == Converted(TrimTrailing(TrimLeading(Upto(s.buf, end))), FALSE)
    IN  CASE end > Len(s.buf)   -> Stop(s)
          [] end <= Len(s.buf) /\ s.mode = "pskip" ->
                Skip(s, end + Len(ParamEnd), "invoke_skip")
          [] OTHER ->
                [Known(Fragment(Skip(s, end + Len(ParamEnd), "invoke"),
                                Lead(s) \o s.key \o <<":">> \o value), value) EXCEPT
                    !.started = TRUE]

RECURSIVE Loop(_)
Loop(s) ==
    IF ~s.go \/ s.buf = <<>> THEN s
    ELSE Loop(CASE s.mode = "idle"                        -> Idle(s)
                [] s.mode = "block"                       -> Block(s)
                [] s.mode \in {"invoke", "invoke_skip"}   -> InInvoke(s)
                [] s.mode = "pstr"                        -> StringValue(s)
                [] OTHER                                  -> HeldValue(s))

(* parse_streaming_increment *)
Increment(d, new) ==
    Loop([buf |-> d.buf \o new, mode |-> d.mode, name |-> d.name, key |-> d.key,
          val |-> d.val, started |-> d.started, trimmed |-> d.trimmed, id |-> d.id,
          prev |-> d.prev, text |-> <<>>, calls |-> <<>>, go |-> TRUE])

State(s) ==
    [buf |-> s.buf, mode |-> s.mode, name |-> s.name, key |-> s.key, val |-> s.val,
     started |-> s.started, trimmed |-> s.trimmed, id |-> s.id, prev |-> s.prev]

(* finish_streaming: what is held and is no beginning of a call *)
Residual(d) ==
    IF \/ d.mode # "idle"
       \/ Has(d.buf, Open)
       \/ d.prev # <<>> /\ Strip(d.buf) = <<>>
    THEN <<>> ELSE d.buf

-----------------------------------------------------------------------------
(***************************************************************************)
(* Qwen3CoderDetector.detect_and_parse: the regular expressions            *)
(***************************************************************************)

(* Where a lone $ matches: at the end, or at its newline *)
Dollar(t) == IF t # <<>> /\ t[Len(t)] = Blank THEN Len(t) - 1 ELSE Len(t)

(* The end of what an opening tag opens: a block needs its closing tag, a  *)
(* call without one takes the rest of its block, and a value goes to the   *)
(* next tag                                                                *)
EndOf(open, t) ==
    CASE open = Open   -> Find(t, Close)
      [] open = Invoke -> IF Has(t, Invoked) THEN Find(t, Invoked) ELSE Len(t)
      [] OTHER         -> Min({Find(t, ParamEnd), Find(t, Param), Find(t, Invoked), Dollar(t)})

CloserAt(open, t, at) ==
    LET closer == CASE open = Open -> Close [] open = Invoke -> Invoked [] OTHER -> ParamEnd
    IN  IF IsPrefix(closer, From(t, at)) THEN Len(closer) ELSE 0

(* findall: the texts that the tag opens, one after the other.  Opened has *)
(* what follows the tag, and where it ends.                                *)
RECURSIVE FindAll(_, _), Opened(_, _, _)
Opened(open, rest, end) ==
    IF end > Len(rest) THEN <<>>
    ELSE <<Upto(rest, end)>> \o FindAll(From(rest, end + CloserAt(open, rest, end)), open)

FindAll(t, open) ==
    LET rest == From(t, Find(t, open) + Len(open))
    IN  IF Has(t, open) THEN Opened(open, rest, EndOf(open, rest)) ELSE <<>>

HasGt(t) == Has(t, <<">">>)
Head1(t) == Strip(Upto(t, Find(t, <<">">>)))
Rest1(t) == From(t, Find(t, <<">">>) + 1)

(* _parse_function_call *)
ParsedCall(body) ==
    LET name   == Head1(body)
        params == SelectSeq(FindAll(Rest1(body), Param), HasGt)
        pair(m) == [key   |-> Head1(m),
                    value |-> Converted(TrimTrailing(TrimLeading(Rest1(m))), IsString(name, Head1(m)))]
    IN  [name |-> name, args |-> [n \in 1..Len(params) |-> pair(params[n])]]

Callable(body) == HasGt(body) /\ IsKnown(Head1(body))

(* detect_and_parse: the calls, as names with their arguments *)
DetectedCalls(t) ==
    LET blocks == FindAll(t, Open)
        bodies(b) == SelectSeq(FindAll(b, Invoke), Callable)
        all == FlattenSeq([n \in 1..Len(blocks) |-> bodies(blocks[n])])
        found == IF blocks = <<>> THEN bodies(t) ELSE all
    IN  [n \in 1..Len(found) |-> ParsedCall(found[n])]

-----------------------------------------------------------------------------
(***************************************************************************)
(* FunctionCallParser                                                      *)
(***************************************************************************)

HasToolCall(t) == Has(t, Invoke) \/ Has(t, Open)

(* What follows the last </tool_call> *)
AfterLast(t) ==
    From(t, Max({n + Len(Close) : n \in {n \in 0..(Len(t) - Len(Close)) :
                    SubSeq(t, n + 1, n + Len(Close)) = Close}}))

(* parse_non_stream: the text before the first block and the text after    *)
(* the last one                                                            *)
Tailed(head, tail) ==
    IF Strip(tail) # <<>> /\ ~Has(head, Strip(tail)) /\ ~HasToolCall(tail)
    THEN head \o tail ELSE head

NonStreamText(t) ==
    LET head == IF Has(t, Open) THEN Strip(Upto(t, Find(t, Open))) ELSE t
    IN  IF Has(t, Close) THEN Tailed(head, AfterLast(t)) ELSE head

(* A text without a call is its own result *)
Parsed(t, calls) == [text |-> IF calls = <<>> THEN t ELSE NonStreamText(t), calls |-> calls]
NonStream(t) == Parsed(t, DetectedCalls(t))

(* parse_stream_events: the chunk, then what was left of it, until nothing *)
(* comes out                                                               *)
Results(s) ==
    (IF s.text = <<>> THEN <<>> ELSE <<[kind |-> "text", text |-> s.text]>>)
      \o (IF s.calls = <<>> THEN <<>> ELSE <<[kind |-> "calls", calls |-> s.calls]>>)

RECURSIVE Segments(_, _, _, _)
Segments(s, new, segs, n) ==  \* s has parsed new, and n turns are left
    IF n = 0 \/ (new = <<>> /\ Results(s) = <<>>)
    THEN [d |-> State(s), segs |-> segs \o Results(s)]
    ELSE Segments(Increment(State(s), <<>>), <<>>, segs \o Results(s), n - 1)

StreamEvents(d, new) == Segments(Increment(d, new), new, <<>>, DrainLimit - 1)

(* unstreamed_arguments: the arguments that were read back when the last   *)
(* parameter was closed                                                    *)
Unstreamed(d, index) == Dumps(d.prev[index + 1])

(* recover_truncated_call: the closing tag is added and what is held is    *)
(* parsed again                                                            *)
Recovered(d) == IF HasToolCall(d.buf) THEN DetectedCalls(d.buf \o Close) ELSE <<>>

=============================================================================
