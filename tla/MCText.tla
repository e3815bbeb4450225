------------------------------ MODULE MCText ------------------------------
(***************************************************************************)
(* The stages of the text pipeline, one state space for TLC: a behaviour   *)
(* picks a stage (and an instance of it) and runs that stage alone.  The   *)
(* variables of the other stages stay Unused.                              *)
(***************************************************************************)
EXTENDS Naturals, Sequences, SequencesExt

VARIABLES
    stage,                                       \* what this behaviour runs
    gen, life, match, out, status,               \* Detokenizer
    text, fed, reasoning, content, over,         \* the reasoning parsers
    buffer, inside, stripped, head, headOpen, shown, \* ThinkStream
    nReason, nContent,                           \* HarmonyStream
    p,                                           \* AtemStream
    d, reason, cut,                              \* InvokeStream, with text and fed
    g, wire, a, frames, said, writing, steps, ended  \* GenEvents; g is InvokeStream's too

detokVars   == <<gen, life, match, out, status>>
streamVars  == <<text, fed>>
shownVars   == <<reasoning, content, over>>
thinkVars   == <<buffer, inside, stripped, head, headOpen, shown>>
harmonyVars == <<nReason, nContent>>
callVars    == <<d, reason, cut>>
wireVars    == <<wire, a, frames, said, writing, steps, ended>>
vars == <<stage, detokVars, streamVars, shownVars, thinkVars, harmonyVars, p, callVars,
          g, wireVars>>

Unused == "unused"
NoDetok   == /\ gen = Unused /\ life = Unused /\ match = Unused /\ out = Unused /\ status = Unused
NoStream  == /\ text = Unused /\ fed = Unused
NoShown   == /\ reasoning = Unused /\ content = Unused /\ over = Unused
NoThink   == /\ buffer = Unused /\ inside = Unused /\ stripped = Unused /\ head = Unused
             /\ headOpen = Unused /\ shown = Unused
NoHarmony == /\ nReason = Unused /\ nContent = Unused
NoCalls   == /\ d = Unused /\ reason = Unused /\ cut = Unused
NoWire    == /\ wire = Unused /\ a = Unused /\ frames = Unused /\ said = Unused
             /\ writing = Unused /\ steps = Unused /\ ended = Unused

-----------------------------------------------------------------------------
(***************************************************************************)
(* Detokenizer: whole characters and the two halves of one, alone or after *)
(* a space, a CJK character or a letter; and words with stop strings, one  *)
(* that overlaps itself and one that starts inside it                      *)
(***************************************************************************)
ByteTokens == {<<"a">>, <<"_">>, <<"C">>, <<"H">>, <<"L">>, <<"_", "H">>, <<"C", "H">>,
               <<"a", "H">>}
WordTokens == {<<"a">>, <<"b">>, <<"a", "b">>, <<"b", "a">>, <<"n">>, <<"H", "L">>,
               <<"a", "H">>}
TwoStops   == << <<"a", "b", "a">>, <<"b", "n">> >>

Bytes == INSTANCE Detokenizer
            WITH Tokens <- ByteTokens, StopStrs <- <<>>, MaxOutput <- 5, MayAbort <- TRUE
Stops == INSTANCE Detokenizer
            WITH Tokens <- WordTokens, StopStrs <- TwoStops, MaxOutput <- 6, MayAbort <- FALSE

(***************************************************************************)
(* The reasoning parsers.  Markers are two symbols that begin alike.       *)
(***************************************************************************)
ThinkSymbols == {"<", "b", "e", "a", "x"}
ToolSymbols  == {"<", "b", "e", "t", "a", "_"}
ThinkWords   == {"a", "x"}
Word         == {"a"}
Opener       == <<"<", "b">>
Ender        == <<"<", "e">>
ToolMark     == <<"<", "t">>
NoMark       == <<>>

Think == INSTANCE ThinkStream
            WITH Symbols <- ThinkSymbols, Words <- ThinkWords, StartTok <- Opener,
                 EndTok <- Ender, ToolTok <- NoMark, Force <- FALSE, BareCloser <- FALSE,
                 HoldMax <- 3, MaxText <- 6
DeepSeek == INSTANCE ThinkStream
            WITH Symbols <- ToolSymbols, Words <- Word, StartTok <- Opener,
                 EndTok <- Ender, ToolTok <- ToolMark, Force <- TRUE, BareCloser <- FALSE,
                 HoldMax <- 3, MaxText <- 5
MiniMax == INSTANCE ThinkStream
            WITH Symbols <- ToolSymbols, Words <- Word, StartTok <- Opener,
                 EndTok <- Ender, ToolTok <- ToolMark, Force <- FALSE, BareCloser <- TRUE,
                 HoldMax <- 3, MaxText <- 5

\* A word, and text that looks like the start of a marker.
SomeBodies == {<<>>, <<"a">>, <<"a", "<">>}
Harmony == INSTANCE HarmonyStream WITH Bodies <- SomeBodies, MaxSegments <- 2

\* <|start|>, <|message|>, <|eot|>, to=self, to=n, words and a blank
TurnPieces == {<<"<", "s">>, <<"<", "m">>, <<"<", "x">>, <<"t", "=", "S">>, <<"t", "=", "n">>,
               <<"a">>, <<"t">>, <<"_">>}
Atem == INSTANCE AtemStream
            WITH Pieces <- TurnPieces, NameMax <- 2, Span <- 5, Window <- 7, MaxPieces <- 4

(***************************************************************************)
(* Tool calls: tags in any order, calls of unknown tools, whole calls      *)
(***************************************************************************)
TagPieces  == {<<"<", "b", ">", "<", "f", "w", ">">>, <<"<", "g", ">", "<", "e", ">">>,
               <<"<", "p", "s", ">">>, <<"<", "q", ">">>, <<"a">>, <<"_">>}
SkipPieces == {<<"<", "b", ">">>, <<"<", "f", "u", ">">>, <<"<", "f", "w", ">">>,
               <<"<", "g", ">">>, <<"<", "p", "i", ">">>, <<"<", "q", ">">>, <<"a">>}
CallOf(args) == <<"<", "b", ">", "<", "f", "w", ">">> \o args \o <<"<", "g", ">", "<", "e", ">">>
CallPieces == {CallOf(<<>>), CallOf(<<"<", "p", "s", ">", "_", "a", "_", "<", "q", ">">>),
               CallOf(<<"<", "p", "i", ">", "a", "<", "q", ">", "<", "p", "s", ">", "<", "q", ">">>),
               <<"a">>, <<"_">>}

Tags  == INSTANCE InvokeStream
            WITH Pieces <- TagPieces, MaxPieces <- 4, ForwardUnknown <- TRUE, DrainLimit <- 16
Skips == INSTANCE InvokeStream
            WITH Pieces <- SkipPieces, MaxPieces <- 4, ForwardUnknown <- FALSE, DrainLimit <- 16
Calls == INSTANCE InvokeStream
            WITH Pieces <- CallPieces, MaxPieces <- 2, ForwardUnknown <- TRUE, DrainLimit <- 16

(***************************************************************************)
(* The adapters; the models that think again after a call on OpenAI's wire *)
(***************************************************************************)
Adapters == INSTANCE GenEvents
            WITH Wires <- {"openai", "anthropic", "responses"}, Interleaved <- FALSE,
                 MaxSteps <- 6
Rethinking == INSTANCE GenEvents
            WITH Wires <- {"openai"}, Interleaved <- TRUE, MaxSteps <- 6

ASSUME InstancesSound ==
    /\ Bytes!DetokenizerAssumption /\ Stops!DetokenizerAssumption
    /\ Think!ThinkStreamAssumption /\ DeepSeek!ThinkStreamAssumption
    /\ MiniMax!ThinkStreamAssumption
    /\ Harmony!HarmonyAssumption /\ Atem!AtemAssumption
    /\ Tags!InvokeAssumption /\ Skips!InvokeAssumption /\ Calls!InvokeAssumption
    /\ Tags!ToolAssumption /\ Skips!ToolAssumption
    /\ Adapters!GenAssumption /\ Rethinking!GenAssumption

-----------------------------------------------------------------------------
OnlyDetok   == NoStream /\ NoShown /\ NoThink /\ NoHarmony /\ NoCalls /\ NoWire
                 /\ p = Unused /\ g = Unused
OnlyThink   == NoDetok /\ NoHarmony /\ NoCalls /\ NoWire /\ p = Unused /\ g = Unused
OnlyHarmony == NoDetok /\ NoThink /\ NoCalls /\ NoWire /\ p = Unused /\ g = Unused
OnlyAtem    == NoDetok /\ NoThink /\ NoHarmony /\ NoCalls /\ NoWire /\ g = Unused
OnlyCalls   == NoDetok /\ NoShown /\ NoThink /\ NoHarmony /\ NoWire /\ p = Unused
OnlyWires   == NoDetok /\ NoStream /\ NoShown /\ NoThink /\ NoHarmony /\ NoCalls /\ p = Unused

Init ==
    \/ OnlyDetok   /\ \/ stage = "bytes" /\ Bytes!Init
                      \/ stage = "stops" /\ Stops!Init
    \/ OnlyThink   /\ \/ stage = "think" /\ Think!Init
                      \/ stage = "deepseek" /\ DeepSeek!Init
                      \/ stage = "minimax" /\ MiniMax!Init
    \/ OnlyHarmony /\ stage = "harmony" /\ Harmony!Init
    \/ OnlyAtem    /\ stage = "atem" /\ Atem!Init
    \/ OnlyCalls   /\ \/ stage = "tags" /\ Tags!Init
                      \/ stage = "skips" /\ Skips!Init
                      \/ stage = "calls" /\ Calls!Init
    \/ OnlyWires   /\ \/ stage = "wires" /\ Adapters!Init
                      \/ stage = "again" /\ Rethinking!Init

NextDetok ==
    /\ \/ stage = "bytes" /\ Bytes!Next
       \/ stage = "stops" /\ Stops!Next
    /\ UNCHANGED <<stage, streamVars, shownVars, thinkVars, harmonyVars, p, callVars, g, wireVars>>

NextThink ==
    /\ \/ stage = "think" /\ Think!Next
       \/ stage = "deepseek" /\ DeepSeek!Next
       \/ stage = "minimax" /\ MiniMax!Next
    /\ UNCHANGED <<stage, detokVars, harmonyVars, p, callVars, g, wireVars>>

NextHarmony ==
    /\ stage = "harmony" /\ Harmony!Next
    /\ UNCHANGED <<stage, detokVars, thinkVars, p, callVars, g, wireVars>>

NextAtem ==
    /\ stage = "atem" /\ Atem!Next
    /\ UNCHANGED <<stage, detokVars, thinkVars, harmonyVars, callVars, g, wireVars>>

NextCalls ==
    /\ \/ stage = "tags" /\ Tags!Next
       \/ stage = "skips" /\ Skips!Next
       \/ stage = "calls" /\ Calls!Next
    /\ UNCHANGED <<stage, detokVars, shownVars, thinkVars, harmonyVars, p, wireVars>>

NextWires ==
    /\ \/ stage = "wires" /\ Adapters!Next
       \/ stage = "again" /\ Rethinking!Next
    /\ UNCHANGED <<stage, detokVars, streamVars, shownVars, thinkVars, harmonyVars, p, callVars>>

Next == NextDetok \/ NextThink \/ NextHarmony \/ NextAtem \/ NextCalls \/ NextWires

Spec == Init /\ [][Next]_vars

-----------------------------------------------------------------------------
(* Streaming is transparent: wherever a reply is cut into chunks, what the *)
(* client was shown as reasoning and as content is what the complete reply *)
(* gives when it is parsed at once (reasoning_parser.py: the parsers with  *)
(* markers, harmony and Muse, on the texts their modules admit).           *)
ReasoningIsOneShot ==
    /\ stage = "think"    => Think!StreamIsOneShot
    /\ stage = "deepseek" => DeepSeek!StreamIsOneShot
    /\ stage = "minimax"  => MiniMax!StreamIsOneShot
    /\ stage = "harmony"  => Harmony!StreamIsOneShot
    /\ stage = "atem"     => Atem!StreamIsOneShot

(* The client has a beginning of the text of the tokens at every moment;   *)
(* at the end it has all of it, or all before the stop string; only when   *)
(* the last token ends inside a character may it lack the rest of a word   *)
(* (detokenize.py).                                                        *)
ClientHasText ==
    /\ stage = "bytes" => Bytes!SentIsText /\ Bytes!Flushed
    /\ stage = "stops" => Stops!SentIsText /\ Stops!StopCutsText /\ Stops!Flushed

(* The words and calls that were streamed do not depend on where the text  *)
(* was cut into chunks (function_call_parser.py parse_streaming_increment).*)
CallsIgnoreChunks ==
    /\ stage = "tags"  => Tags!StreamIsWhole
    /\ stage = "skips" => Skips!StreamIsWhole

(* A complete text of well formed calls gives a client that streams the    *)
(* calls, with their arguments, and the finish reason of one that does not *)
(* (generate_events against generate_full).                                *)
CallsAreOneShot == stage = "calls" => Calls!CallsAreOneShot

(* When a stream is done, the client of each protocol has rebuilt what the *)
(* model said from frames that nest properly, and was told truly how it    *)
(* ended (openai_api.py, anthropic_api.py, responses_api.py); on OpenAI's  *)
(* wire also when the model thinks again while a call is open.             *)
ClientSeesReply ==
    /\ stage = "wires" => Adapters!ClientSeesReply /\ Adapters!BlocksBracketed /\ Adapters!EndIsHonest
    /\ stage = "again" => Rethinking!ClientSeesReply /\ Rethinking!EndIsHonest
=============================================================================
