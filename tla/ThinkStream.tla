---------------------------- MODULE ThinkStream ----------------------------
(***************************************************************************)
(* The reasoning parsers with an opening and a closing marker              *)
(* (server/reasoning_parser.py): BaseReasoningParser with its think and    *)
(* DeepSeek variants, and MiniMaxM3ReasoningParser, which strips a bare    *)
(* closer from the head of the turn.  The text arrives in chunks cut       *)
(* anywhere; each chunk adds to the reasoning and to the content that the  *)
(* client is shown, and the end of the stream flushes what was held back.  *)
(***************************************************************************)
EXTENDS Naturals, Sequences, SequencesExt, Text

CONSTANTS Symbols,     \* the symbols of the texts
          Words,       \* the ones that are no piece of a marker and not blank
          StartTok,    \* think_start_token
          EndTok,      \* think_end_token
          ToolTok,     \* tool_start_token, <<>> for none
          Force,       \* force_reasoning
          BareCloser,  \* the MiniMax-M3 parser
          HoldMax,     \* TOOL_HOLD_MAX, in symbols
          MaxText      \* bound: the length of a text

ThinkStreamAssumption ==
    /\ Words \subseteq Symbols
    /\ {StartTok, EndTok, ToolTok} \subseteq Seq(Symbols \ Words)
    /\ {Force, BareCloser} \subseteq BOOLEAN
    /\ {HoldMax, MaxText} \subseteq Nat

VARIABLES
    text,       \* history: what the model writes in this turn
    fed,        \* how much of it has arrived
    buffer,     \* _buffer
    inside,     \* _in_reasoning
    stripped,   \* _stripped_think_start
    head,       \* _head_buffer
    headOpen,   \* _leading_closer_pending
    reasoning,  \* history: the reasoning shown
    content,    \* history: the content shown
    shown,      \* history: all that was shown, in order
    over        \* the stream was flushed

vars == <<text, fed, buffer, inside, stripped, head, headOpen, reasoning, content,
          shown, over>>

-----------------------------------------------------------------------------
(***************************************************************************)
(* BaseReasoningParser.parse_streaming_increment: the state and the two    *)
(* deltas after one more piece of text                                     *)
(***************************************************************************)

Result(buf, in, opened, thought, answer) ==
    [buffer |-> buf, inside |-> in, stripped |-> opened,
     thought |-> thought, answer |-> answer]

(* The markers whose beginnings are held back (_split_trailing_partial) *)
Tracked(opened) ==
    {EndTok} \cup (IF opened THEN {} ELSE {StartTok})
             \cup (IF ToolTok = <<>> THEN {} ELSE {ToolTok})

(* A tool marker inside the reasoning: held, up to HoldMax symbols *)
ToolBlock(cur, opened) ==
    LET at == Find(cur, ToolTok) IN
    IF Len(From(cur, at)) > HoldMax
      THEN Result(<<>>, FALSE, opened, Upto(cur, at), From(cur, at))
      ELSE Result(From(cur, at), TRUE, opened, Upto(cur, at), <<>>)

\* Fault: nothing is held back.
Passage_eager(cur, in, opened) ==
    IF in THEN Result(<<>>, in, opened, cur, <<>>) ELSE Result(<<>>, in, opened, <<>>, cur)

(* No complete marker: show what cannot become one *)
Passage(cur, in, opened) ==
    LET held == HeldLen(cur, Tracked(opened))
        safe == Upto(cur, Len(cur) - held)
    IN  IF in THEN Result(From(cur, Len(safe)), in, opened, safe, <<>>)
              ELSE Result(From(cur, Len(safe)), in, opened, <<>>, safe)

(* The closer ends the reasoning, also one with a tool marker in it *)
Closed(cur, opened) ==
    Result(<<>>, FALSE, opened, RStrip(Upto(cur, Find(cur, EndTok))),
           From(cur, Find(cur, EndTok) + Len(EndTok)))

Increment(buf, in0, opened0, new) ==
    LET all    == buf \o new
        opens  == ~opened0 /\ Has(all, StartTok)
        cur    == IF opens THEN RemoveOne(all, StartTok) ELSE all
        opened == opened0 \/ opens
        in     == in0 \/ opens
    IN  CASE in /\ Has(cur, EndTok) -> Closed(cur, opened)
          [] in /\ ~Has(cur, EndTok) /\ ToolTok # <<>> /\ Has(cur, ToolTok) ->
                ToolBlock(cur, opened)
          [] OTHER -> Passage(cur, in, opened)

(* BaseReasoningParser.flush *)
BaseFlush(buf, in, opened) ==
    CASE buf = <<>> -> Result(<<>>, in, opened, <<>>, <<>>)
      [] buf # <<>> /\ ToolTok # <<>> /\ IsPrefix(ToolTok, LStrip(buf)) ->
            Result(<<>>, FALSE, opened, <<>>, buf)
      [] OTHER -> IF in THEN Result(<<>>, in, opened, buf, <<>>)
                        ELSE Result(<<>>, in, opened, <<>>, buf)

-----------------------------------------------------------------------------
(***************************************************************************)
(* The one-shot parse of a complete text                                   *)
(***************************************************************************)

Pair(thought, answer) == [thought |-> thought, answer |-> answer]

(* Reasoning up to the closer, or to a tool block if there is no closer *)
SplitThought(t) ==
    CASE Has(t, EndTok) -> Pair(Upto(t, Find(t, EndTok)), From(t, Find(t, EndTok) + Len(EndTok)))
      [] ~Has(t, EndTok) /\ ToolTok # <<>> /\ Has(t, ToolTok) ->
            Pair(Upto(t, Find(t, ToolTok)), From(t, Find(t, ToolTok)))
      [] OTHER -> Pair(t, <<>>)

(* BaseReasoningParser.detect_and_parse *)
BaseOneShot(t) ==
    LET split == SplitThought(Strip(RemoveEvery(t, StartTok))) IN
    IF Force \/ Has(t, StartTok)
      THEN Pair(IF Has(t, EndTok) THEN split.thought ELSE RStrip(split.thought),
                IF Has(t, EndTok) THEN Strip(split.answer) ELSE split.answer)
      ELSE Pair(<<>>, t)

(* MiniMaxM3ReasoningParser.detect_and_parse *)
M3OneShot(t) ==
    LET start == Find(t, StartTok)
        body  == SplitThought(From(t, start + Len(StartTok)))
    IN  CASE Force -> SplitThought(t)
          [] ~Force /\ IsPrefix(EndTok, LStrip(t)) -> Pair(<<>>, From(LStrip(t), Len(EndTok)))
          [] ~Force /\ ~IsPrefix(EndTok, LStrip(t)) /\ ~Has(t, StartTok) -> Pair(<<>>, t)
          [] OTHER ->
               IF ~Has(From(t, start + Len(StartTok)), EndTok) /\ body.answer = <<>>
                 THEN body
                 ELSE Pair(body.thought, Upto(t, start) \o body.answer)

OneShot(t) == IF BareCloser THEN M3OneShot(t) ELSE BaseOneShot(t)

-----------------------------------------------------------------------------
(***************************************************************************)
(* The stream                                                              *)
(***************************************************************************)

Show(thought, answer) ==
    /\ reasoning' = reasoning \o thought
    /\ content' = content \o answer
    /\ shown' = shown \o thought \o answer

Apply(res) ==
    /\ buffer' = res.buffer
    /\ inside' = res.inside
    /\ stripped' = res.stripped
    /\ Show(res.thought, res.answer)

Piece(n) == SubSeq(text, fed + 1, fed + n)

(* parse_streaming_increment for the next n symbols, once the head of the  *)
(* turn is settled                                                         *)
Feed(n) ==
    /\ ~over /\ ~headOpen
    /\ fed' = fed + n
    /\ Apply(Increment(buffer, inside, stripped, Piece(n)))
    /\ UNCHANGED <<text, head, headOpen, over>>

HeadText(n) == LStrip(head \o Piece(n))

(* ... while the text so far may still be a bare closer: nothing is shown *)
FeedHeadHold(n) ==
    /\ ~over /\ headOpen
    /\ IsStrictPrefix(HeadText(n), EndTok)
    /\ fed' = fed + n
    /\ head' = head \o Piece(n)
    /\ UNCHANGED <<text, buffer, inside, stripped, headOpen, reasoning, content,
                   shown, over>>

(* ... when the bare closer is complete: it is stripped *)
FeedHeadCloser(n) ==
    /\ ~over /\ headOpen
    /\ IsPrefix(EndTok, HeadText(n))
    /\ fed' = fed + n
    /\ head' = <<>> /\ headOpen' = FALSE
    /\ Apply(Increment(buffer, FALSE, stripped, From(HeadText(n), Len(EndTok))))
    /\ UNCHANGED <<text, over>>

(* ... when it is something else: the held head is replayed *)
FeedHeadDiverged(n) ==
    /\ ~over /\ headOpen
    /\ ~IsPrefix(HeadText(n), EndTok) /\ ~IsPrefix(EndTok, HeadText(n))
    /\ fed' = fed + n
    /\ head' = <<>> /\ headOpen' = FALSE
    /\ Apply(Increment(buffer, inside, stripped, head \o Piece(n)))
    /\ UNCHANGED <<text, over>>

(* A head that is still open at the end was no closer *)
Replay ==
    IF headOpen /\ head # <<>> THEN Increment(buffer, inside, stripped, head)
    ELSE Result(buffer, inside, stripped, <<>>, <<>>)

(* flush, at the end of the stream; the turn may be cut short anywhere *)
Flush ==
    /\ ~over
    /\ over' = TRUE
    /\ head' = <<>> /\ headOpen' = FALSE
    /\ LET first == Replay
           rest  == BaseFlush(first.buffer, first.inside, first.stripped)
       IN  Apply([rest EXCEPT !.thought = first.thought \o @, !.answer = first.answer \o @])
    /\ UNCHANGED <<text, fed>>

Init ==
    /\ text \in [1..MaxText -> Symbols] /\ fed = 0
    /\ buffer = <<>> /\ inside = Force /\ stripped = FALSE
    /\ head = <<>> /\ headOpen = (BareCloser /\ ~Force)
    /\ reasoning = <<>> /\ content = <<>> /\ shown = <<>> /\ over = FALSE

Next ==
    \/ \E n \in 1..(MaxText - fed) :
         \/ Feed(n)
         \/ FeedHeadHold(n)
         \/ FeedHeadCloser(n)
         \/ FeedHeadDiverged(n)
    \/ Flush

Spec == Init /\ [][Next]_vars

-----------------------------------------------------------------------------
Arrived == Upto(text, fed)

TypeOK ==
    /\ {text, buffer, head, reasoning, content, shown} \subseteq Seq(Symbols)
    /\ fed \in 0..MaxText
    /\ {inside, stripped, headOpen, over} \subseteq BOOLEAN
    /\ over => buffer = <<>> /\ head = <<>>

WordsOf(t) == SelectSeq(t, LAMBDA c : c \in Words)
Solid(t)   == SelectSeq(t, LAMBDA c : c # Blank)

(* Every word the model writes is shown once, in order, wherever the text  *)
(* is cut into chunks: nothing is lost in a buffer and nothing shown twice *)
(* ("Without this, text stuck in the prefix buffer or a held block would   *)
(* be silently dropped", flush).                                           *)
NothingLost ==
    /\ IsPrefix(WordsOf(shown), WordsOf(Arrived))
    /\ over => WordsOf(shown) = WordsOf(Arrived)

(* A turn as the templates ask for: reasoning is opened once at most, by   *)
(* the first thing the model writes or by the prompt.                      *)
OneThought(t) ==
    /\ ~Has(RemoveOne(t, StartTok), StartTok)
    /\ Has(t, StartTok) => IsPrefix(StartTok, LStrip(t)) /\ ~(Force /\ BareCloser)

(* A tool block that is left hanging longer than it is held *)
LongBlock(t) ==
    /\ ToolTok # <<>>
    /\ Len(From(t, Find(t, ToolTok))) > HoldMax
    /\ Has(t, EndTok)

(* The streamed reply and the complete one tell the same of a turn,        *)
(* wherever it is cut: the same words are reasoning and the same words are *)
(* the answer.                                                             *)
StreamIsOneShot ==
    over /\ OneThought(Arrived) /\ ~LongBlock(Arrived)
      => /\ Solid(reasoning) = Solid(OneShot(Arrived).thought)
         /\ Solid(content) = Solid(OneShot(Arrived).answer)

(* What MiniMaxM3ReasoningParser.detect_and_parse says of itself: a parse  *)
(* "positional and verbatim, matching the streaming path".                 *)
VerbatimOneShot ==
    over => Pair(reasoning, content) = OneShot(Arrived)

(* "prose before it stays content": what the model wrote before the opener *)
(* is content, also when both arrive together.                             *)
ProseStaysContent ==
    over /\ Has(Arrived, StartTok)
      => IsPrefix(WordsOf(Upto(Arrived, Find(Arrived, StartTok))), WordsOf(content))

(* "Bare leading closer: strip it once, everything after is content."      *)
BareCloserEndsThought ==
    IsPrefix(EndTok, LStrip(Arrived)) => reasoning = <<>>
=============================================================================
