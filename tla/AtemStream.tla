---------------------------- MODULE AtemStream ----------------------------
(***************************************************************************)
(* MuseGlimmerReasoningParser (server/reasoning_parser.py): a turn of      *)
(* segments addressed to the model itself (reasoning), to the user         *)
(* (content) or to a tool (content, verbatim, with its header).  A segment *)
(* opens with <|start|>...to=X<|message|> or with a bare to=X<|message|>;  *)
(* the first header was opened by the prompt.  The buffer is consumed as   *)
(* it is shown, so each decision is made with what has arrived by then.    *)
(***************************************************************************)
EXTENDS Naturals, Sequences, SequencesExt, FiniteSetsExt, Text

CONSTANTS Pieces,    \* the pieces that texts are made of
          NameMax,   \* the longest recipient (64)
          Span,      \* ATEM_HEADER_SPAN (128)
          Window,    \* _ATEM_HOLD_WINDOW (96)
          MaxPieces  \* bound: the pieces of a text

Start   == <<"<", "s">>
Message == <<"<", "m">>
Closer  == <<"<", "x">>   \* <|eot|>, <|eom|>, <|end_of_text|>
To      == <<"t", "=">>
Self    == <<"S">>
User    == <<"U">>

Markers == {Start, Message, Closer}

AtemAssumption ==
    /\ Pieces \subseteq Seq({"<", "s", "m", "x", "t", "=", "S", "U", "n", "a", Blank})
    /\ {NameMax, Span, Window, MaxPieces} \subseteq Nat
    /\ Window >= Len(To) + NameMax + Len(Message)

VARIABLES
    text,       \* history: what the model writes in this turn
    fed,        \* how much of it has arrived
    p,          \* the parser: _buffer, _mode, _recipient, _synthetic_open
    reasoning,  \* history: the reasoning shown
    content,    \* history: the content shown
    over        \* the stream was flushed

vars == <<text, fed, p, reasoning, content, over>>

-----------------------------------------------------------------------------
(***************************************************************************)
(* Headers and what may become one                                         *)
(***************************************************************************)

IsName(c) == c \notin {Blank, "<"}

(* The name symbols of t after n symbols *)
RunLen(t, n) ==
    Max({k \in 0..(Len(t) - n) : \A i \in (n + 1)..(n + k) : IsName(t[i])} \cup {0})

(* ATEM_INLINE_HEADER_RE.search: the first bare header to=X<|message|> *)
InlineAt(t, i) ==
    LET k == RunLen(t, i + Len(To)) IN
    /\ IsPrefix(To, From(t, i))
    /\ k \in 1..NameMax
    /\ IsPrefix(Message, From(t, i + Len(To) + k))

Inline(t) ==
    LET found == {i \in 0..Len(t) : InlineAt(t, i)}
        i     == Min(found)
        k     == RunLen(t, i + Len(To))
    IN  IF found = {} THEN [at |-> Len(t) + 1, to |-> <<>>, end |-> Len(t) + 1]
        ELSE [at |-> i, to |-> SubSeq(t, i + Len(To) + 1, i + Len(To) + k),
              end |-> i + Len(To) + k + Len(Message)]

(* ATEM_RECIPIENT_RE.search in the text between the two markers *)
Recipient(header) ==
    LET found == {i \in 0..Len(header) :
                    IsPrefix(To, From(header, i)) /\ RunLen(header, i + Len(To)) >= 1}
        from  == Min(found) + Len(To)
    IN  IF found = {} THEN User
        ELSE SubSeq(header, from + 1, from + Min({NameMax, RunLen(header, from)}))

(* atem_marker_inside *)
MarkerInside(t, from, to) ==
    \E m \in {Start, Closer} : FindFrom(Upto(t, to), m, from) <= to

(* atem_hold_len: the end of t that could still become a marker or a bare  *)
(* header                                                                  *)
HoldLen(t) ==
    LET w     == From(t, IF Len(t) > Window THEN Len(t) - Window ELSE 0)
        tos   == {i \in 0..Len(w) : IsPrefix(To, From(w, i))}
        tail  == From(w, Max(tos))
        k     == RunLen(tail, Len(To))
        rest  == From(tail, Len(To) + k)
        grows == /\ tos # {}
                 /\ \/ k <= NameMax /\ rest = <<>>
                    \/ k \in 1..NameMax /\ rest # <<>> /\ IsPrefix(rest, Message)
    IN  Max({HeldLen(t, Markers \cup {To})} \cup (IF grows THEN {Len(tail)} ELSE {}))

-----------------------------------------------------------------------------
(***************************************************************************)
(* _drain: one turn of its loop.  `go` is FALSE where the code breaks.     *)
(***************************************************************************)

IsTool(to) == to \notin {Self, User}

Emit(s, to, piece) ==
    IF to = Self THEN [s EXCEPT !.r = @ \o piece] ELSE [s EXCEPT !.c = @ \o piece]

EmitSeek(s, piece) == [s EXCEPT !.c = @ \o RemoveEvery(piece, Closer)]

(* begin_body: tool slices keep their header *)
BeginBody(s, to, header) ==
    LET t == [s EXCEPT !.mode = "body", !.to = to]
    IN  IF IsTool(to) THEN Emit(t, to, header) ELSE t

(* A <|start|> that opens no header is content; the one that the prompt    *)
(* opened is dropped                                                       *)
Literal(s, buf, at) ==
    [EmitSeek(s, Upto(buf, at)) EXCEPT
        !.c = @ \o (IF s.seed THEN <<>> ELSE Start),
        !.seed = FALSE,
        !.buf = From(buf, at + Len(Start))]

(* Nothing that opens a segment: show all but what may become a header *)
Passage(s, buf, final) ==
    LET n == Len(buf) - (IF final THEN 0 ELSE HoldLen(buf))
    IN  [shown |-> Upto(buf, n), rest |-> From(buf, n)]

(* The <|message|> belongs to another header *)
TooFar(at, msg) == msg - at - Len(Start) > Span

(* Too much has come after the <|start|> for it to open a header *)
PastSpan(buf) == Len(buf) - Len(Start) > Span + Len(Message)

(* A candidate that never received its <|message|>: only the marker is     *)
(* dropped                                                                 *)
Unfinished(s) ==
    [EmitSeek(s, From(s.buf, Len(Start))) EXCEPT !.seed = FALSE, !.buf = <<>>, !.go = FALSE]

SeekStart(s, buf, at, final) ==
    LET msg    == FindFrom(buf, Message, at + Len(Start))
        hasMsg == msg <= Len(buf)
        body   == msg + Len(Message)
        held   == [EmitSeek(s, Upto(buf, at)) EXCEPT !.buf = From(buf, at)]
    IN  CASE MarkerInside(buf, at + Len(Start), IF hasMsg THEN msg ELSE Len(buf)) ->
                Literal(s, buf, at)
          [] hasMsg /\ TooFar(at, msg) /\ ~MarkerInside(buf, at + Len(Start), msg) ->
                Literal(s, buf, at)
          [] hasMsg /\ ~TooFar(at, msg) /\ ~MarkerInside(buf, at + Len(Start), msg) ->
                BeginBody([EmitSeek(s, Upto(buf, at)) EXCEPT !.seed = FALSE,
                                                             !.buf = From(buf, body)],
                          Recipient(SubSeq(buf, at + Len(Start) + 1, msg)),
                          SubSeq(buf, at + 1, body))
          [] OTHER ->
                CASE PastSpan(held.buf)             -> Literal(s, buf, at)
                  [] ~PastSpan(held.buf) /\ final   -> Unfinished(held)
                  [] OTHER                          -> [held EXCEPT !.go = FALSE]

Seek(s, final) ==
    LET buf == s.buf
        at  == Find(buf, Start)
        in  == Inline(buf)
    IN  CASE in.at < at /\ in.at <= Len(buf) ->
                BeginBody([EmitSeek(s, Upto(buf, in.at)) EXCEPT !.buf = From(buf, in.end)],
                          in.to, SubSeq(buf, in.at + 1, in.end))
          [] at <= in.at /\ at <= Len(buf) -> SeekStart(s, buf, at, final)
          [] OTHER -> LET out == Passage(s, buf, final)
                      IN  [EmitSeek(s, out.shown) EXCEPT !.buf = out.rest, !.go = FALSE]

(* What is added to the body of a tool so that it is always closed *)
EndOfBody(to, kind) == IF IsTool(to) THEN Closer ELSE <<>>

(* _segment_body_end and the body branch of the loop *)
Body(s, final) ==
    LET buf   == s.buf
        close == Find(buf, Closer)
        start == Find(buf, Start)
        in    == Inline(buf)
        end   == Min({close, start, in.at})
        kind  == CASE end > Len(buf) -> "none"
                   [] end <= Len(buf) /\ end = close -> "closer"
                   [] end <= Len(buf) /\ end = start -> "start"
                   [] OTHER -> "inline"
        shown == Emit(s, s.to, Upto(buf, end) \o EndOfBody(s.to, kind))
        out   == Passage(s, buf, final)
    IN  CASE kind = "none"   -> [Emit(s, s.to, out.shown) EXCEPT !.buf = out.rest, !.go = FALSE]
          [] kind = "closer" -> [shown EXCEPT !.buf = From(buf, end + Len(Closer)), !.mode = "seek"]
          [] kind = "start"  -> [shown EXCEPT !.buf = From(buf, end), !.mode = "seek"]
          [] OTHER           -> BeginBody([shown EXCEPT !.buf = From(buf, in.end)],
                                          in.to, SubSeq(buf, end + 1, in.end))

RECURSIVE Loop(_, _)
Loop(s, final) ==
    IF ~s.go \/ s.buf = <<>> THEN s
    ELSE Loop(IF s.mode = "seek" THEN Seek(s, final) ELSE Body(s, final), final)

Drain(q, new, final) ==
    Loop([buf |-> q.buf \o new, mode |-> q.mode, to |-> q.to, seed |-> q.seed,
          r |-> <<>>, c |-> <<>>, go |-> TRUE], final)

State(s) == [buf |-> s.buf, mode |-> s.mode, to |-> s.to, seed |-> s.seed]

(* A parser that continues the prompt's <|start|>assistant *)
Fresh == [buf |-> Start, mode |-> "seek", to |-> User, seed |-> TRUE]

(* detect_and_parse, without the trailing strip *)
OneShot(t) ==
    LET first == Drain(Fresh, t, FALSE)
        rest  == Drain(State(first), <<>>, TRUE)
    IN  IF \E m \in Markers : Has(t, m) THEN [r |-> first.r \o rest.r, c |-> first.c \o rest.c]
                                       ELSE [r |-> <<>>, c |-> t]

-----------------------------------------------------------------------------
Show(s) ==
    /\ p' = State(s)
    /\ reasoning' = reasoning \o s.r
    /\ content' = content \o s.c

(* parse_streaming_increment for the next n symbols *)
Feed(n) ==
    /\ ~over
    /\ fed' = fed + n
    /\ Show(Drain(p, SubSeq(text, fed + 1, fed + n), FALSE))
    /\ UNCHANGED <<text, over>>

(* flush; the turn may be cut short anywhere *)
Flush ==
    /\ ~over
    /\ over' = TRUE
    /\ Show(Drain(p, <<>>, TRUE))
    /\ UNCHANGED <<text, fed>>

Init ==
    /\ \E n \in 0..MaxPieces : \E t \in [1..n -> Pieces] : text = FlattenSeq(t)
    /\ fed = 0 /\ p = Fresh
    /\ reasoning = <<>> /\ content = <<>> /\ over = FALSE

Next == Flush \/ \E n \in 1..(Len(text) - fed) : Feed(n)

Spec == Init /\ [][Next]_vars

-----------------------------------------------------------------------------
Arrived == Upto(text, fed)
WordsOf(t) == SelectSeq(t, LAMBDA c : c = "a")

(* Between chunks only the end of the text is held, and never without      *)
(* bound: a degenerate text "neither stalls nor eats the turn".            *)
TypeOK ==
    /\ fed \in 0..Len(text) /\ over \in BOOLEAN
    /\ p.mode \in {"seek", "body"}
    /\ over => p.buf = <<>>
    /\ p.seed => p.mode = "seek"

HoldBounded ==
    Len(p.buf) <= Max({Len(Start) + Span + Len(Message), Window})

(* The reply does not depend on where the text was cut: the chunks give    *)
(* the reasoning and the content of the text parsed at once ("or one-shot  *)
(* and streaming diverge").                                                *)
StreamIsOneShot ==
    over => [r |-> reasoning, c |-> content] = OneShot(Arrived)

(* Prose that only looks like a header is delivered, not dropped: a text   *)
(* in which no header is ever completed comes out with all its words.      *)
NothingLost ==
    over /\ ~Has(Arrived, Message) => WordsOf(content) = WordsOf(Arrived)

=============================================================================
