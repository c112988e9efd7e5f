----------------------------- MODULE BinaryApi ------------------------------
(***************************************************************************)
(* One connection to RouterOS's Binary API (routeros_binary.py): requests  *)
(* with a tag, one at a time, the sentences of an answer decoded from the  *)
(* bytes of a TCP stream as recv cuts them, and the limits on what is kept *)
(* of an answer.  The thread that watches the authorisation may close the  *)
(* connection between any two steps, and a call of the socket may time out.*)
(*                                                                         *)
(* Bytes are 0..255 and lengths are encoded as on the wire; a word is a    *)
(* few bytes that tell what it is, a value a number of equal bytes.        *)
(***************************************************************************)
EXTENDS Naturals, Sequences, FiniteSets, SequencesExt

CONSTANTS Calls,          \* "execute", "listen": what the supervisor calls
          Values,         \* lengths of a value in a record, 0 for none
          Cuts,           \* how many bytes recv returns, when there are as many
          MaxWord, MaxSentence, MaxWords,  \* MAX_WORD_SIZE, ..., MAX_REPLY_WORDS
          MaxField,                        \* MAX_REPLY_FIELD_VALUE_BYTES
          MaxResponse, MaxReplies, MaxResponseWords,  \* MAX_RESPONSE_BYTES, _REPLIES, _WORDS
          \* bounds
          MaxRequests, MaxStrays,
          MaxRecords,  \* the router answers no record after as many replies in all
          Window    \* the router sends on while no more bytes are under way

VARIABLES
    sock,     \* _socket: "open" or "closed"
    ended,    \* the router has ended the connection
    wire,     \* bytes on their way from the router
    buffer,   \* SentenceReader._buffer
    scan,     \* _scan_offset
    words,    \* _words
    tag,      \* _tag
    call,     \* the request of the thread that owns the connection
    chunk,    \* bytes received and not yet fed to the reader
    todo,     \* the router's: tags it still has to answer, in order
    said,     \* ghost: what the router answered to each tag
    given,    \* ghost: the replies collected of each
    asked,    \* ghost: "execute" or "listen", by tag
    cut,      \* ghost: another thread closed the connection
    late,     \* ghost: a call of the socket timed out
    strays,   \* ghost: sentences that are no reply to the request under way
    result    \* ghost: what came of each request

reader == <<buffer, scan, words>>
router == <<todo, said, strays>>
ghosts == <<given, asked, cut, late, result>>
vars == <<sock, ended, wire, reader, tag, call, chunk, router, ghosts>>

-----------------------------------------------------------------------------
(* Lengths and words                                                       *)

EncodeLength(n) ==
    CASE n < 128 -> <<n>>
      [] n \in 128..16383 -> <<128 + n \div 256, n % 256>>
      [] n \in 16384..2097151 -> <<192 + n \div 65536, (n \div 256) % 256, n % 256>>
      [] n \in 2097152..268435455 ->
           <<224 + n \div 16777216, (n \div 65536) % 256, (n \div 256) % 256, n % 256>>
      [] OTHER ->
           <<240, n \div 16777216, (n \div 65536) % 256, (n \div 256) % 256, n % 256>>

\* How many bytes a length that begins with byte f has; 0: reserved
LengthSize(f) ==
    CASE f < 128 -> 1 [] f \in 128..191 -> 2 [] f \in 192..223 -> 3
      [] f \in 224..239 -> 4 [] f = 240 -> 5 [] OTHER -> 0

\* Of the bytes of b from o on, o counted from 0.
Truncated(b, o) == o >= Len(b) \/ o + LengthSize(b[o + 1]) > Len(b)
DecodeLength(b, o) ==
    LET f == b[o + 1] IN
    CASE LengthSize(f) = 1 -> f
      [] LengthSize(f) = 2 -> (f % 64) * 256 + b[o + 2]
      [] LengthSize(f) = 3 -> (f % 32) * 65536 + b[o + 2] * 256 + b[o + 3]
      [] LengthSize(f) = 4 ->
           (f % 16) * 16777216 + b[o + 2] * 65536 + b[o + 3] * 256 + b[o + 4]
      [] OTHER ->
           b[o + 2] * 16777216 + b[o + 3] * 65536 + b[o + 4] * 256 + b[o + 5]

EncodeWord(w) == EncodeLength(Len(w)) \o w
EncodeSentence(s) == FlattenSeq([i \in DOMAIN s |-> EncodeWord(s[i])]) \o <<0>>
WireSize(s) == Len(EncodeSentence(s))

\* The kinds of reply: a record, the two ends of an answer, an error ("trap" or
\* "fatal"), any other that begins with "!"; and a word that is none.
Re == <<114>>
Done == <<100>>
Empty == <<101>>
Trap == <<116>>
Other == <<111>>
NoKind == <<0>>
Reply(kind, t, size) ==
    IF size = 0 THEN <<kind, <<t>>>> ELSE <<kind, <<t>>, [i \in 1..size |-> 120]>>

\* parse_reply accepts it; the tag in it
Parses(s) ==
    /\ s # <<>> /\ s[1] # NoKind /\ Len(s) <= MaxWords
    /\ \A i \in 2..Len(s) : Len(s[i]) <= MaxField
HasTag(s, t) == Len(s) > 1 /\ s[2] = <<t>>

-----------------------------------------------------------------------------
(* SentenceReader                                                          *)

\* _complete_sentence: words are taken from the scan offset on; "more" when
\* the bytes end first, what was taken is kept.
Complete(b, limit) ==
    LET Take[o \in 0..Len(b), k \in 0..MaxWords] ==
            IF Truncated(b, o) /\ (o >= Len(b) \/ LengthSize(b[o + 1]) # 0)
            THEN [how |-> "more", at |-> o, got |-> <<>>]
            ELSE LET size == LengthSize(b[o + 1])
                     n == DecodeLength(b, o)
                     next == o + size
                 IN  IF size = 0 \/ next > limit
                     THEN [how |-> "bad", at |-> o, got |-> <<>>]
                     ELSE IF n = 0
                     THEN [how |-> "sentence", at |-> next, got |-> <<>>]
                     ELSE IF n > MaxWord \/ k = MaxWords \/ next + n > limit
                     THEN [how |-> "bad", at |-> o, got |-> <<>>]
                     ELSE IF next + n > Len(b)
                     THEN [how |-> "more", at |-> o, got |-> <<>>]
                     ELSE LET rest == Take[next + n, k + 1]
                          IN  [rest EXCEPT !.got = <<SubSeq(b, next + 1, next + n)>> \o @]
        end == Take[scan, Len(words)]
    IN  [end EXCEPT !.got = words \o @]

\* Mutant: the words taken so far are lost, not the offset behind them.
KeptOffset(b, c) == [how |-> "more", buffer |-> b, scan |-> c.at, words |-> <<>>, got |-> <<>>]
\* What feed leaves behind: the reader, and the first sentence if there is one
Kept(b, c) == [how |-> "more", buffer |-> b, scan |-> c.at, words |-> c.got, got |-> <<>>]
Emitted(b, c, rest, limit) ==
    LET left == SubSeq(b, c.at + 1, Len(b)) IN
    [how |-> IF Len(left) + Len(rest) > limit THEN "bad" ELSE "sentence",
     buffer |-> left \o rest, scan |-> 0, words |-> <<>>, got |-> c.got]
Broken == [how |-> "bad", buffer |-> <<>>, scan |-> 0, words |-> <<>>, got |-> <<>>]

\* feed(data, max_sentences=1): from what is buffered, else from that and as much
\* of data as the limit admits.
Feed(data, limit) ==
    LET first == Complete(buffer, limit)
        room == limit - Len(buffer)
        n == IF room < Len(data) THEN room ELSE Len(data)
        b == buffer \o SubSeq(data, 1, n)
        second == Complete(b, limit)
    IN  CASE first.how = "bad" -> Broken
          [] first.how = "sentence" -> Emitted(buffer, first, data, limit)
          [] first.how = "more" /\ Len(buffer) >= limit -> Broken
          [] first.how = "more" /\ Len(buffer) < limit ->
               CASE second.how = "bad" -> Broken
                 [] second.how = "sentence" ->
                      Emitted(b, second, SubSeq(data, n + 1, Len(data)), limit)
                 [] second.how = "more" -> IF Len(b) >= limit THEN Broken ELSE Kept(b, second)

-----------------------------------------------------------------------------
\* at: "begin" before _read_sentence, "drain" and "recv" in its loop
NoCall == [kind |-> "none", at |-> "idle", bytes |-> 0, words |-> 0, received |-> 0]

TypeOK ==
    /\ sock \in {"open", "closed"} /\ ended \in BOOLEAN /\ cut \in BOOLEAN /\ late \in BOOLEAN
    /\ buffer \in Seq(0..255) /\ scan \in 0..Len(buffer) /\ wire \in Seq(0..255)
    /\ Len(words) <= MaxWords
    /\ tag \in 0..MaxRequests /\ call.kind \in Calls \cup {"none"}
    /\ call.at \in {"idle", "begin", "drain", "recv", "feed"}
    /\ asked \in Seq(Calls) /\ Len(asked) = tag
    /\ strays \in 0..MaxStrays
    /\ result \in [1..MaxRequests -> {"none", "ok", "failed"}]

Init ==
    /\ sock = "open" /\ ended = FALSE /\ wire = <<>>
    /\ buffer = <<>> /\ scan = 0 /\ words = <<>>
    /\ tag = 0 /\ call = NoCall /\ chunk = <<>>
    /\ todo = <<>> /\ strays = 0 /\ asked = <<>> /\ cut = FALSE /\ late = FALSE
    /\ said = [t \in 1..MaxRequests |-> <<>>]
    /\ given = [t \in 1..MaxRequests |-> <<>>]
    /\ result = [t \in 1..MaxRequests |-> "none"]

\* close(): the socket is gone, the reader a new one.
Close == sock' = "closed" /\ buffer' = <<>> /\ scan' = 0 /\ words' = <<>>

\* Any error of a request closes the connection.
FailWith(timeout) ==
    /\ Close /\ call' = NoCall /\ chunk' = <<>>
    /\ result' = [result EXCEPT ![tag] = "failed"] /\ late' = timeout
    /\ UNCHANGED <<ended, wire, tag, given, asked, cut, router>>
Fail == FailWith(late)

Limited == call.kind = "execute"
Remaining == MaxResponse - call.bytes
ReadLimit == IF Limited /\ Remaining < MaxSentence THEN Remaining ELSE MaxSentence

\* execute and listen: the command is sent with a new tag, unless the connection
\* was closed meanwhile or the socket does not take it in time.
Send(k) ==
    /\ call = NoCall /\ tag < MaxRequests /\ (sock = "open" \/ cut)
    /\ tag' = tag + 1 /\ asked' = Append(asked, k)
    /\ \/ /\ sock = "open" /\ todo' = Append(todo, tag + 1)
          /\ call' = [NoCall EXCEPT !.kind = k, !.at = "begin"]
          /\ UNCHANGED <<sock, reader, result, late>>
       \/ /\ Close /\ late' = (late \/ sock = "open") /\ UNCHANGED <<call, todo>>
          /\ result' = [result EXCEPT ![tag + 1] = "failed"]
    /\ UNCHANGED <<ended, wire, chunk, said, strays, given, cut>>

\* _request refuses to read on, or _read_sentence begins.
Begin ==
    /\ call.at = "begin"
    /\ IF Limited /\ (\/ Len(given[tag]) >= MaxReplies \/ Remaining < 1
                      \/ Len(buffer) > Remaining)
       THEN Fail
       ELSE /\ call' = [call EXCEPT !.at = "drain", !.received = Len(buffer)]
            /\ UNCHANGED <<sock, ended, wire, reader, tag, chunk, router, ghosts>>

\* Mutant: the tag of a reply is not compared.
AnyTag(s) == TRUE
OwnTag(s) == HasTag(s, tag)

Acceptable(s) ==
    /\ Parses(s) /\ OwnTag(s) /\ s[1] # Trap
    /\ Limited => WireSize(s) <= Remaining /\ call.words + Len(s) <= MaxResponseWords

\* execute returns all replies, up to the first that is an end; listen yields the
\* records and does not know "empty".
Keeps(k, s) == k = "execute" \/ s[1] = Re
Ends(k, s) == s[1] = Done \/ (k = "execute" /\ s[1] = Empty)

\* A reply is kept, or passed over; the last one ends the request.
Accept(s) ==
    /\ given' = IF Keeps(call.kind, s) THEN [given EXCEPT ![tag] = Append(@, s)] ELSE given
    /\ IF Ends(call.kind, s)
       THEN call' = NoCall /\ result' = [result EXCEPT ![tag] = "ok"]
       ELSE /\ call' = [call EXCEPT !.at = "begin", !.bytes = @ + WireSize(s),
                                   !.words = @ + Len(s), !.received = 0]
            /\ UNCHANGED result
    /\ UNCHANGED <<asked, cut, late>>

\* The reader is fed under the state lock, unless the connection was closed.
Fed(data) ==
    LET fed == Feed(data, ReadLimit) IN
    IF sock = "closed" \/ fed.how = "bad"
       \/ (fed.how = "sentence" /\ ~Acceptable(fed.got))
    THEN Fail
    ELSE /\ buffer' = fed.buffer /\ scan' = fed.scan /\ words' = fed.words
         /\ IF fed.how = "sentence" THEN Accept(fed.got)
            ELSE /\ call' = [call EXCEPT !.at = "recv"]
                 /\ UNCHANGED ghosts
         /\ chunk' = <<>>
         /\ UNCHANGED <<sock, ended, wire, tag, router>>

Drain == call.at = "drain" /\ Fed(<<>>)

\* recv returns some bytes; or fails, at the stream's end, when the budget is spent,
\* the socket closed, or nothing came for too long.
Receive ==
    /\ call.at = "recv"
    /\ LET budget == IF Limited THEN Remaining - call.received ELSE 4096 IN
       \/ /\ sock = "closed" \/ budget < 1 \/ (ended /\ wire = <<>>)
          /\ Fail
       \/ sock = "open" /\ budget >= 1 /\ FailWith(TRUE)
       \/ /\ sock = "open" /\ wire # <<>> /\ budget >= 1
          /\ \E c \in Cuts :
               LET n == CHOOSE m \in {c, Len(wire), budget} :
                            \A x \in {c, Len(wire), budget} : m <= x
               IN  /\ chunk' = SubSeq(wire, 1, n) /\ wire' = SubSeq(wire, n + 1, Len(wire))
                   /\ call' = [call EXCEPT !.at = "feed", !.received = @ + n]
          /\ UNCHANGED <<sock, ended, reader, tag, router, ghosts>>

FeedChunk == call.at = "feed" /\ Fed(chunk)

\* The thread that watches the authorisation, or a stop, closes the connection.
Cut ==
    /\ sock = "open" /\ Close /\ cut' = TRUE
    /\ UNCHANGED <<ended, wire, tag, call, chunk, router, given, asked, late, result>>

-----------------------------------------------------------------------------
(* The router                                                              *)

Utter(s) == wire' = wire \o EncodeSentence(s)
Quiet == UNCHANGED <<sock, ended, reader, tag, call, chunk, ghosts>>
Says(t, s) == Utter(s) /\ said' = [said EXCEPT ![t] = Append(@, s)]
SaidEmpty(t) == said[t] # <<>> /\ Last(said[t])[1] = Empty

\* A record of the answer to the first request, or a reply of another kind; that
\* there are none, with or without a "done" to follow; the end, or an error.
Answers ==
    /\ sock = "open" /\ ~ended /\ todo # <<>> /\ Len(wire) <= Window
    /\ LET t == Head(todo) IN
       \/ /\ Len(FlattenSeq(said)) < MaxRecords /\ ~SaidEmpty(t) /\ UNCHANGED todo
          /\ \/ \E v \in Values : Says(t, Reply(Re, t, v))
             \/ Says(t, Reply(Other, t, 0))
       \/ said[t] = <<>> /\ Says(t, Reply(Empty, t, 0)) /\ todo' \in {todo, Tail(todo)}
       \/ \E k \in {Done, Trap} : Says(t, Reply(k, t, 0)) /\ todo' = Tail(todo)
    /\ UNCHANGED strays /\ Quiet

\* A record with the tag of an earlier request, or what is no reply at all
Strays ==
    /\ sock = "open" /\ ~ended /\ strays < MaxStrays /\ strays' = strays + 1
    /\ \/ \E t \in 1..(tag - 1) : Utter(Reply(Re, t, 0))
       \/ tag > 0 /\ Utter(<<NoKind>>)
    /\ UNCHANGED <<todo, said>> /\ Quiet

EndsStream ==
    /\ sock = "open" /\ ~ended /\ ended' = TRUE
    /\ UNCHANGED <<sock, wire, reader, tag, call, chunk, router, ghosts>>

Next ==
    \/ \E k \in Calls : Send(k)
    \/ Begin \/ Drain \/ Receive \/ FeedChunk \/ Cut
    \/ Answers \/ Strays \/ EndsStream

Spec == Init /\ [][Next]_vars

-----------------------------------------------------------------------------
\* What the router said to a tag up to the end that the call knows.
Answer(t) ==
    LET ends == {i \in DOMAIN said[t] : Ends(asked[t], said[t][i])}
    IN  IF ends = {} THEN said[t] ELSE SubSeq(said[t], 1, Min(ends))
Ended(t) == \E i \in DOMAIN said[t] : Ends(asked[t], said[t][i])

\* What a request returns, or a listener has been given, is what the router
\* answered to its tag, in order and with nothing left out up to the reply that
\* ends the answer, however the stream was cut into pieces.
AnswersAreWhole ==
    \A t \in 1..tag :
        LET kept == SelectSeq(Answer(t), LAMBDA s : Keeps(asked[t], s)) IN
        IsPrefix(given[t], kept) /\ (result[t] = "ok" => given[t] = kept /\ Ended(t))

\* An answer that no limit forbids; one that has not ended has more to come.
WithinLimits(t) ==
    LET answer == Answer(t)
        more == IF Ended(t) THEN 0 ELSE 1
    IN  /\ \A s \in Range(answer) :
             /\ WireSize(s) <= MaxSentence /\ s[1] # Trap
             /\ \A i \in DOMAIN s : Len(s[i]) <= IF MaxField < MaxWord THEN MaxField ELSE MaxWord
        /\ asked[t] = "execute" =>
             /\ Len(answer) + more <= MaxReplies
             /\ FoldSeq(LAMBDA s, n : Len(s) + n, 0, answer) <= MaxResponseWords
             /\ FoldSeq(LAMBDA s, n : WireSize(s) + n, 0, answer) + more <= MaxResponse

\* The router said more to an earlier request than that request read: a "done"
\* after the "empty" at which execute returns (routeros_binary.py:550).
Behind(t) == \E u \in 1..(t - 1) : result[u] = "ok" /\ Answer(u) # said[u]

\* A request fails only when the router refused it, its answer went beyond a
\* limit, the stream ended, was closed or timed out, a sentence was not for it, or
\* the request before it left some of its answer unread: no boundary of a limit or
\* of a piece of the stream loses an answer.
FailsForAReason ==
    \A t \in 1..tag :
        result[t] = "failed" =>
            cut \/ late \/ ended \/ strays > 0 \/ ~WithinLimits(t) \/ Behind(t)

\* What is kept of a sentence that has not ended is bounded, and a connection
\* with bytes of a failed answer in it is not used again.
KeptIsBounded ==
    /\ Len(buffer) <= MaxSentence
    /\ \A t \in 1..MaxRequests : result[t] = "failed" => sock = "closed"
=============================================================================
