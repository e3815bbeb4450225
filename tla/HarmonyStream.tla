--------------------------- MODULE HarmonyStream ---------------------------
(***************************************************************************)
(* GptOssHarmonyReasoningParser (server/reasoning_parser.py).  The turn is *)
(* a sequence of segments <|channel|>header<|message|>body, each ended by  *)
(* a boundary marker.  Every chunk scans the whole text again and shows    *)
(* what the scan gives beyond the lengths already shown: right only if a   *)
(* scan never takes back what an earlier one gave.                         *)
(***************************************************************************)
EXTENDS Naturals, Sequences, SequencesExt, FiniteSetsExt, Text

CONSTANTS Bodies,      \* the bodies of the segments
          MaxSegments  \* bound: the segments of a turn

(* The markers, cut in two, and the headers "analysis" and "commentary     *)
(* to=functions.f"; any other header is shown as content.                  *)
Channel  == <<"<", "c">>
Message  == <<"<", "m">>
EndMark  == <<"<", "x">>   \* <|end|>, <|return|>, <|call|>
Start    == <<"<", "s">>
Analysis == "A"
ToolCall == "T"

Markers  == {Channel, Message, EndMark, Start}
Boundary == {EndMark, Start, Channel}
Closing  == {EndMark}

HarmonyAssumption ==
    /\ Bodies \subseteq Seq({"a", "<", Blank})
    /\ MaxSegments \in Nat

VARIABLES
    text,       \* history: what the model writes in this turn
    fed,        \* how much of it has arrived: _buffer is Upto(text, fed)
    nReason,    \* _emitted_reasoning
    nContent,   \* _emitted_content
    reasoning,  \* history: the reasoning shown
    content,    \* history: the content shown
    over        \* the stream was flushed

vars == <<text, fed, nReason, nContent, reasoning, content, over>>

-----------------------------------------------------------------------------
(* _segment_end: where the body ends, and the marker that ends it *)
SegmentEnd(t, from) ==
    LET at(m) == FindFrom(t, m, from)
        end   == Min({at(m) : m \in Boundary} \cup {Len(t) + 1})
    IN  IF end > Len(t) THEN [at |-> Len(t), mark |-> <<>>]
        ELSE [at |-> end, mark |-> CHOOSE m \in Boundary : at(m) = end]

(* A body that has not ended keeps back what may become a marker *)
BodyShown(body, ended, hold) ==
    IF hold /\ ~ended THEN Upto(body, Len(body) - HeldLen(body, Markers)) ELSE body

(* A tool block is kept verbatim, with the marker that closes it *)
ToolSlice(t, from, end) ==
    SubSeq(t, from + 1, IF end.mark \in Closing THEN end.at + Len(end.mark) ELSE end.at)

(* One segment: what it adds to the reasoning and to the content *)
Segment(t, chan, msg, end, hold) ==
    LET header == SubSeq(t, chan + Len(Channel) + 1, msg)
        kind   == IF header = <<>> THEN Blank ELSE header[1]
        body   == BodyShown(SubSeq(t, msg + Len(Message) + 1, end.at), end.mark # <<>>, hold)
    IN  CASE kind = ToolCall -> [r |-> <<>>, c |-> ToolSlice(t, chan, end)]
          [] kind = Analysis -> [r |-> body, c |-> <<>>]
          [] OTHER           -> [r |-> <<>>, c |-> body]

(* _scan: all segments whose header is complete, from left to right *)
Scan(t, hold) ==
    LET scan[i \in 0..Len(t)] ==
          LET chan == FindFrom(t, Channel, i)
              msg  == FindFrom(t, Message, chan + Len(Channel))
              end  == SegmentEnd(t, msg + Len(Message))
              seg  == Segment(t, chan, msg, end, hold)
              rest == scan[end.at]
          IN  CASE chan > Len(t) \/ msg > Len(t) -> [r |-> <<>>, c |-> <<>>]
                [] chan <= Len(t) /\ msg <= Len(t) /\ end.mark = <<>> -> seg
                [] OTHER -> [r |-> seg.r \o rest.r, c |-> seg.c \o rest.c]
    IN  scan[0]

(* detect_and_parse, without the trailing strip *)
OneShot(t) == IF Has(t, Channel) THEN Scan(t, FALSE) ELSE [r |-> <<>>, c |-> t]

-----------------------------------------------------------------------------

(* The length to go on from *)
Seen(n, m) == m

Show(res) ==
    /\ reasoning' = reasoning \o From(res.r, nReason)
    /\ content' = content \o From(res.c, nContent)
    /\ nReason' = Seen(nReason, Len(res.r))
    /\ nContent' = Seen(nContent, Len(res.c))

(* parse_streaming_increment for the next n symbols *)
Feed(n) ==
    /\ ~over
    /\ fed' = fed + n
    /\ Show(Scan(Upto(text, fed + n), TRUE))
    /\ UNCHANGED <<text, over>>

(* flush; the turn may be cut short anywhere *)
Flush ==
    /\ ~over
    /\ over' = TRUE
    /\ Show(Scan(Upto(text, fed), FALSE))
    /\ UNCHANGED <<text, fed>>

(* A turn: text before the first channel, then segments that end with a    *)
(* marker or where the next one begins                                     *)
Segments ==
    {Channel \o <<h>> \o Message \o body \o end :
        h \in {Analysis, ToolCall, "F"}, body \in Bodies, end \in {EndMark, Start, <<>>}}

Turns == {before \o FlattenSeq(segs) :
            before \in {<<>>, <<"a">>}, segs \in UNION {[1..n -> Segments] : n \in 0..MaxSegments}}

Init ==
    /\ text \in Turns
    /\ fed = 0 /\ nReason = 0 /\ nContent = 0
    /\ reasoning = <<>> /\ content = <<>> /\ over = FALSE

Next == Flush \/ \E n \in 1..(Len(text) - fed) : Feed(n)

Spec == Init /\ [][Next]_vars

-----------------------------------------------------------------------------
Arrived == Upto(text, fed)

TypeOK ==
    /\ fed \in 0..Len(text)
    /\ nReason <= Len(reasoning) /\ nContent <= Len(content)
    /\ over \in BOOLEAN

WordsOf(t) == SelectSeq(t, LAMBDA c : c = "a")

(* The client gets the words of the reply, each once, wherever the chunks  *)
(* are cut (generation.py: what the parser holds is drained "so it is not  *)
(* silently dropped").                                                     *)
NothingLost ==
    over /\ Has(Arrived, Channel) =>
        /\ WordsOf(reasoning) = WordsOf(OneShot(Arrived).r)
        /\ WordsOf(content) = WordsOf(OneShot(Arrived).c)

(* A tool block that the model leaves by opening the next segment *)
LeavesToolBlock(t) ==
    \E i \in 0..Len(t) :
        /\ IsPrefix(Channel \o <<ToolCall>> \o Message, From(t, i))
        /\ SegmentEnd(t, i + 5).mark \in Boundary \ Closing

(* The streamed reply is the complete reply, symbol by symbol, wherever    *)
(* the chunks are cut, if every tool block is closed.                      *)
StreamIsOneShot ==
    over /\ Has(Arrived, Channel) /\ ~LeavesToolBlock(Arrived) =>
        [r |-> reasoning, c |-> content] = OneShot(Arrived)

(* "Lets a marker split across stream chunks reassemble on the next chunk  *)
(* instead of leaking into the emitted body" (reasoning_parser.py): what   *)
(* is shown is never more than what the one-shot parse gives.              *)
MarkersNeverLeak ==
    over /\ Has(Arrived, Channel) => IsPrefix(content, OneShot(Arrived).c)

(* A reply without any channel is delivered as content, as the one-shot    *)
(* parse does.                                                             *)
PlainReplyShown ==
    over /\ ~Has(Arrived, Channel) => content = Arrived
=============================================================================
