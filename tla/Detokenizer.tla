---------------------------- MODULE Detokenizer ----------------------------
(***************************************************************************)
(* From sampled tokens to streamed text: the scheduler's end-of-request    *)
(* test (scheduler.py) and the detokenizer worker's incremental decoding   *)
(* with its hold-back of partial stop strings (tokenizer/detokenize.py,    *)
(* tokenizer/server.py), for one request.                                  *)
(*                                                                         *)
(* A token is a sequence of bytes.  "H" and "L" are the two bytes of the   *)
(* character "e"; either of them alone decodes to the replacement          *)
(* character "?".  Every other byte is a character: "_" is the space, "n"  *)
(* the new line and "C" stands for the CJK characters.                     *)
(***************************************************************************)
EXTENDS Naturals, Sequences, SequencesExt, FiniteSetsExt

CONSTANTS Tokens,    \* the vocabulary, without the end-of-sequence token
          StopStrs,  \* sampling_params.stop_strs: a sequence of texts
          MaxOutput, \* the output budget in tokens
          MayAbort   \* the client may abort the request

DetokenizerAssumption ==
    /\ Tokens \subseteq Seq({"a", "b", "_", "n", "C", "H", "L"}) \ {<<>>}
    /\ StopStrs \in Seq(Seq({"a", "b", "_", "n", "C", "e"}) \ {<<>>})
    /\ MaxOutput \in Nat \ {0}
    /\ MayAbort \in BOOLEAN

EOS == <<>>  \* a special token: it decodes to no text

VARIABLES
    gen,     \* history: the tokens sampled so far, in order
    life,    \* "live", "aborting" (the worker has seen the abort) or "over"
    match,   \* the stop string that ended the request, <<>> for none
    out,     \* history: the text sent to the client
    status   \* decode_map.get(uid): a DecodeStatus, or Absent

vars == <<gen, life, match, out, status>>

Absent == [ids |-> <<>>, str |-> <<>>, read |-> 0, surr |-> 0, sent |-> 0,
           present |-> FALSE]
Fresh  == [Absent EXCEPT !.present = TRUE]

-----------------------------------------------------------------------------
(***************************************************************************)
(* Text                                                                    *)
(***************************************************************************)

(* tokenizer.decode: the bytes of the tokens, character by character *)
Decode(ids) ==
    LET bytes == FlattenSeq(ids)
        Pair(i) == i < Len(bytes) /\ bytes[i] = "H" /\ bytes[i + 1] = "L"
        starts == SelectSeq([i \in 1..Len(bytes) |-> i],
                            LAMBDA i : i = 1 \/ ~Pair(i - 1))
    IN  [k \in 1..Len(starts) |->
            IF Pair(starts[k]) THEN "e"
            ELSE IF bytes[starts[k]] \in {"H", "L"} THEN "?" ELSE bytes[starts[k]]]

Upto(text, n) == SubSeq(text, 1, n)
From(text, n) == SubSeq(text, n + 1, Len(text))

(* text.find(s): the number of characters before s; -1 is Len(text) + 1 *)
Find(text, s) ==
    Min({n \in 0..(Len(text) - Len(s)) : SubSeq(text, n + 1, n + Len(s)) = s}
        \cup {Len(text) + 1})

Has(text, s) == Find(text, s) <= Len(text)

(* find_printable_text *)
Printable(text) ==
    LET n == Len(text) IN
    IF n > 0 /\ text[n] \in {"n", "C"} THEN text
    ELSE IF n > 1 /\ text[n - 1] = "C" THEN Upto(text, n - 1)
    ELSE Upto(text, Max({0} \cup {i \in 1..n : text[i] = "_"}))

\* Fault: a suffix counts only when it is all but the last character.
Holdback_last(text) ==
    Max({0} \cup {i \in 1..Len(text) :
          \E k \in 1..Len(StopStrs) : /\ i = Len(StopStrs[k]) - 1
                                      /\ IsSuffix(Upto(StopStrs[k], i), text)})

(* _stop_prefix_holdback: the longest suffix that could grow into a stop *)
Holdback(text) ==
    Max({0} \cup {i \in 1..Len(text) :
          \E k \in 1..Len(StopStrs) : /\ i < Len(StopStrs[k])
                                      /\ IsSuffix(Upto(StopStrs[k], i), text)})

-----------------------------------------------------------------------------
(***************************************************************************)
(* The scheduler: has this token ended the request?                        *)
(***************************************************************************)

(* How many of the last tokens are searched for a stop string *)
TailTokens == Max({Len(StopStrs[k]) : k \in 1..Len(StopStrs)}) + 1

(* _match_stop_str: the first stop string in the text of the last tokens *)
Matched(ids) ==
    LET n    == Len(ids)
        tail == Decode(SubSeq(ids, IF n > TailTokens THEN n - TailTokens + 1 ELSE 1, n))
        hits == {k \in 1..Len(StopStrs) : Has(tail, StopStrs[k])}
    IN  IF hits = {} THEN <<>> ELSE StopStrs[Min(hits)]

MatchStopStr(ids) ==
    IF StopStrs = <<>> \/ Last(ids) = EOS THEN <<>> ELSE Matched(ids)

HitLength(ids) == Len(ids) = MaxOutput

-----------------------------------------------------------------------------
(***************************************************************************)
(* DetokenizeManager.detokenize for one message                            *)
(***************************************************************************)

(* The status with the token appended (the final EOS is not), and the text *)
(* its ids add to what was read.                                           *)
Fed(s, tok, finished) ==
    IF finished /\ tok = EOS THEN s ELSE [s EXCEPT !.ids = Append(@, tok)]

NewText(s) ==
    From(Decode(From(s.ids, s.surr)), Len(Decode(SubSeq(s.ids, s.surr + 1, s.read))))

Complete(text) == text # <<>> /\ Last(text) # "?"

(* The streaming chunk: offsets move on only at the end of a character *)
Advance(s) ==
    IF Complete(NewText(s))
      THEN [s EXCEPT !.str = @ \o NewText(s), !.surr = s.read, !.read = Len(s.ids)]
      ELSE s

Output(s) == s.str \o IF Complete(NewText(s)) THEN NewText(s)
                                               ELSE Printable(NewText(s))

(* How much of the text may be sent *)
EmitEnd(text, finished, stop) ==
    IF finished
      THEN IF stop # <<>> /\ Has(text, stop) THEN Find(text, stop) ELSE Len(text)
      ELSE Len(text) - Holdback(text)

(* DetokenizeManager.discard for a terminal error *)
Discarded(s) == Absent

(* One DetokenizeMsg: the status it leaves and the text it sends.  A uid   *)
(* that is not in decode_map gets a new status.                            *)
Detokenize(tok, finished, stop) ==
    LET s    == Fed(IF status.present THEN status ELSE Fresh, tok, finished)
        text == Output(s)
        end  == EmitEnd(text, finished, stop)
    IN  [sends  |-> SubSeq(text, s.sent + 1, end),
         leaves |-> IF finished THEN Absent
                    ELSE [Advance(s) EXCEPT !.sent = Max({s.sent, end})]]

-----------------------------------------------------------------------------
(* The scheduler samples tok and the worker handles the message *)
Sample(tok) ==
    /\ life = "live"
    /\ LET ids      == Append(gen, tok)
           stop     == MatchStopStr(ids)
           finished == HitLength(ids) \/ tok = EOS \/ stop # <<>>
           reply    == Detokenize(tok, finished, stop)
       IN  /\ gen' = ids
           /\ match' = stop
           /\ life' = IF finished THEN "over" ELSE life
           /\ status' = reply.leaves
           /\ out' = out \o reply.sends

(* AbortMsg: the worker drops the state; the client reads no further *)
Abort ==
    /\ MayAbort
    /\ life = "live"
    /\ life' = "aborting"
    /\ status' = Absent
    /\ UNCHANGED <<gen, match, out>>

(* A token sampled before the scheduler saw the abort *)
LateSample(tok) ==
    /\ life = "aborting"
    /\ Len(gen) + 1 < MaxOutput
    /\ gen' = Append(gen, tok)
    /\ status' = Detokenize(tok, FALSE, <<>>).leaves
    /\ UNCHANGED <<life, match, out>>

(* ErrorReplyMsg: the abort's acknowledgement, or a failed request *)
ErrorReply ==
    /\ life \in {"live", "aborting"}
    /\ life' = "over"
    /\ status' = Discarded(status)
    /\ UNCHANGED <<gen, match, out>>

Init ==
    /\ gen = <<>> /\ life = "live" /\ match = <<>> /\ out = <<>>
    /\ status = Absent

Next ==
    \/ \E tok \in Tokens \cup {EOS} : Sample(tok)
    \/ \E tok \in Tokens : LateSample(tok)
    \/ Abort
    \/ ErrorReply

Spec == Init /\ [][Next]_vars

-----------------------------------------------------------------------------
TypeOK ==
    /\ gen \in Seq(Tokens \cup {EOS}) /\ Len(gen) <= MaxOutput
    /\ life \in {"live", "aborting", "over"}
    /\ match = <<>> \/ \E k \in 1..Len(StopStrs) : match = StopStrs[k]
    /\ status.surr <= status.read /\ status.read <= Len(status.ids)
    /\ status.present \/ status = Absent

Text == Decode(gen)

(* The client never has to take anything back: at every moment, what was   *)
(* sent is a beginning of the text of all the tokens, decoded at once.     *)
SentIsText == IsPrefix(out, Text)

(* The last token ends inside a character *)
Unfinished == Text # <<>> /\ Last(Text) = "?"

(* Nothing of the stop string that ended the request was sent, however its *)
(* characters came: the text sent ends exactly where the stop begins.      *)
(* (detokenize.py: "a partial stop is never streamed and then needs        *)
(* retracting".)  Not when the last token goes on to a character it does   *)
(* not finish: the text is then cut before the stop is looked for.         *)
StopCutsText == match # <<>> /\ ~Unfinished => out = Upto(Text, Find(Text, match))

(* A stop string in the text ends the request: none is missed because its  *)
(* characters are spread over the tokens.                                  *)
StopFound ==
    life = "live" => \A k \in 1..Len(StopStrs) : ~Has(Text, StopStrs[k])

(* A request that ends by itself has sent all its text, nothing held back  *)
(* for a stop string stays behind; but when the last token ends inside a   *)
(* character, the word it stands in may be lost with it, and no more.      *)
Flushed ==
    life = "over" /\ match = <<>> /\ gen # <<>>
        /\ (Last(gen) = EOS \/ HitLength(gen))
      => LET rest == From(Text, Len(out))
         IN  rest # <<>> => Unfinished /\ ~Has(rest, <<"_">>)

(* decode_map holds nothing of a request that is over *)
NoDecodeLeak == life = "over" => ~status.present
=============================================================================
